---------------------------- MODULE Spec2Model ----------------------------
(***************************************************************************)
(* Cognitive Insight Engine: the analysis pipeline of CognitiveEngine      *)
(* (public/core/engine.js) over the knowledge base (public/core/           *)
(* knowledge.js), with the result cache and statistics of the engine, the  *)
(* ConflictResolver and the ConfidenceScorer.                              *)
(*                                                                         *)
(* Texts are JavaScript strings: sequences of one-character strings.       *)
(* Numbers that the code keeps as floating point are kept here as exact    *)
(* integers in a stated unit:                                              *)
(*   lexicon weights             tenths          (2.5  is 25)              *)
(*   negation strength           sixtieths       (5/6  is 50)              *)
(*   modifier multiplier         thousandths     (1.95 is 1950)            *)
(*   adjusted weight, scores     1/Unit          (1.0  is Unit)            *)
(***************************************************************************)
EXTENDS Integers, Sequences, FiniteSets, TLC

-----------------------------------------------------------------------------
(* Characters and strings                                                  *)

\* The printable ASCII characters in code order: Ascii[1] has code 32.
\* The grave accent (code 96) is entered by name; no text uses it.
Ascii ==
  <<" ","!","\"","#","$","%","&","'","(",")","*","+",",","-",".","/","0",
    "1","2","3","4","5","6","7","8","9",":",";","<","=",">","?","@","A","B",
    "C","D","E","F","G","H","I","J","K","L","M","N","O","P","Q","R","S","T",
    "U","V","W","X","Y","Z","[","\\","]","^","_","grave","a","b","c","d","e",
    "f","g","h","i","j","k","l","m","n","o","p","q","r","s","t","u","v","w",
    "x","y","z","{","|","}","~">>

\* String.prototype.charCodeAt for one character.
charCodeAt(c) ==
  IF c = "\t" THEN 9
  ELSE IF c = "\n" THEN 10
  ELSE 31 + (CHOOSE i \in 1..Len(Ascii) : Ascii[i] = c)

\* String.prototype.toLowerCase for one character.
toLowerCase(c) ==
  LET code == charCodeAt(c)
  IN  IF code >= 65 /\ code <= 90 THEN Ascii[code + 32 - 31] ELSE c

\* The class [.,!?;:"'()\[\]{}<>] of tokenize's two regular expressions.
Punctuation ==
  {".", ",", "!", "?", ";", ":", "\"", "'", "(", ")", "[", "]", "{", "}",
   "<", ">"}

\* The class \s of the split, restricted to the characters texts use.
Whitespace == {" ", "\t", "\n"}

\* String.prototype.substring(from, to), 0-based, clamped to the string.
substring(s, from, to) ==
  LET a == IF from > Len(s) THEN Len(s) ELSE from
      b == IF to > Len(s) THEN Len(s) ELSE to
  IN  SubSeq(s, a + 1, b)

\* A word of the text as a TLA+ string, to compare with knowledge-base
\* literals.
RECURSIVE Str(_)
Str(chars) ==
  IF chars = <<>> THEN "" ELSE Head(chars) \o Str(Tail(chars))

\* String.prototype.includes: the literal pattern occurs in the string s.
includes(s, pattern) ==
  \E i \in 0..(Len(s) - Len(pattern)) :
     Str(SubSeq(s, i + 1, i + Len(pattern))) = pattern

\* Array.prototype.join with a separator character.
RECURSIVE join(_, _)
join(words, sep) ==
  IF words = <<>> THEN <<>>
  ELSE IF Len(words) = 1 THEN words[1]
  ELSE words[1] \o <<sep>> \o join(Tail(words), sep)

Min(a, b) == IF a < b THEN a ELSE b
Max(a, b) == IF a > b THEN a ELSE b

\* The sum of f[from .. to] for a sequence of integers; the range is halved
\* so that long sequences do not nest deeply.
RECURSIVE sumRange(_, _, _)
sumRange(f, from, to) ==
  IF to < from THEN 0
  ELSE IF from = to THEN f[from]
  ELSE sumRange(f, from, (from + to) \div 2)
       + sumRange(f, (from + to) \div 2 + 1, to)

Sum(f) == sumRange(f, 1, Len(f))

-----------------------------------------------------------------------------
(* KNOWLEDGE_BASE                                                          *)

\* lexicon: one record per marker, in the order of the object's keys.
\* weight is in tenths, emotional_valence in tenths; subcategory "none"
\* stands for an absent field; valid_contexts keeps the object's key order.
lexicon ==
  <<
    [word |-> "always", category |-> "absolutist",
     subcategory |-> "temporal_absolutism", weight |-> 25,
     contradicts |-> {"sometimes", "occasionally", "rarely"},
     context_required |-> FALSE,
     valid_contexts |->
        <<>>,
     emotional_valence |-> -3],
    [word |-> "never", category |-> "absolutist",
     subcategory |-> "temporal_absolutism", weight |-> 25,
     contradicts |-> {"sometimes", "often", "usually"},
     context_required |-> FALSE,
     valid_contexts |->
        <<>>,
     emotional_valence |-> -4],
    [word |-> "everything", category |-> "absolutist",
     subcategory |-> "binary_thinking", weight |-> 22,
     contradicts |-> {"some", "few", "partial"},
     context_required |-> FALSE,
     valid_contexts |->
        <<>>,
     emotional_valence |-> -2],
    [word |-> "nothing", category |-> "absolutist",
     subcategory |-> "binary_thinking", weight |-> 24,
     contradicts |-> {"something", "anything"},
     context_required |-> FALSE,
     valid_contexts |->
        <<>>,
     emotional_valence |-> -5],
    [word |-> "should", category |-> "imperative",
     subcategory |-> "none", weight |-> 30,
     contradicts |-> {},
     context_required |-> TRUE,
     valid_contexts |->
        <<[pattern |-> "i_should", weight |-> 40],
          [pattern |-> "you_should", weight |-> 25],
          [pattern |-> "should_have", weight |-> 50],
          [pattern |-> "should_not", weight |-> 35]>>,
     emotional_valence |-> -6],
    [word |-> "must", category |-> "imperative",
     subcategory |-> "none", weight |-> 35,
     contradicts |-> {},
     context_required |-> FALSE,
     valid_contexts |->
        <<>>,
     emotional_valence |-> -7],
    [word |-> "have_to", category |-> "imperative",
     subcategory |-> "none", weight |-> 28,
     contradicts |-> {},
     context_required |-> TRUE,
     valid_contexts |->
        <<>>,
     emotional_valence |-> -5],
    [word |-> "disaster", category |-> "catastrophizing",
     subcategory |-> "none", weight |-> 40,
     contradicts |-> {},
     context_required |-> FALSE,
     valid_contexts |->
        <<>>,
     emotional_valence |-> -9],
    [word |-> "terrible", category |-> "catastrophizing",
     subcategory |-> "none", weight |-> 32,
     contradicts |-> {},
     context_required |-> FALSE,
     valid_contexts |->
        <<>>,
     emotional_valence |-> -8],
    [word |-> "worst", category |-> "catastrophizing",
     subcategory |-> "none", weight |-> 35,
     contradicts |-> {"best", "good", "okay"},
     context_required |-> FALSE,
     valid_contexts |->
        <<>>,
     emotional_valence |-> -7],
    [word |-> "failure", category |-> "self_critic",
     subcategory |-> "none", weight |-> 38,
     contradicts |-> {},
     context_required |-> FALSE,
     valid_contexts |->
        <<>>,
     emotional_valence |-> -8],
    [word |-> "stupid", category |-> "self_critic",
     subcategory |-> "none", weight |-> 30,
     contradicts |-> {},
     context_required |-> FALSE,
     valid_contexts |->
        <<>>,
     emotional_valence |-> -7],
    [word |-> "useless", category |-> "self_critic",
     subcategory |-> "none", weight |-> 35,
     contradicts |-> {},
     context_required |-> FALSE,
     valid_contexts |->
        <<>>,
     emotional_valence |-> -8],
    [word |-> "my_fault", category |-> "personalization",
     subcategory |-> "none", weight |-> 40,
     contradicts |-> {},
     context_required |-> FALSE,
     valid_contexts |->
        <<>>,
     emotional_valence |-> -7],
    [word |-> "because_of_me", category |-> "personalization",
     subcategory |-> "none", weight |-> 35,
     contradicts |-> {},
     context_required |-> FALSE,
     valid_contexts |->
        <<>>,
     emotional_valence |-> -6],
    [word |-> "they_think", category |-> "mind_reading",
     subcategory |-> "none", weight |-> 25,
     contradicts |-> {},
     context_required |-> FALSE,
     valid_contexts |->
        <<>>,
     emotional_valence |-> -4],
    [word |-> "probably_thinks", category |-> "mind_reading",
     subcategory |-> "none", weight |-> 22,
     contradicts |-> {},
     context_required |-> FALSE,
     valid_contexts |->
        <<>>,
     emotional_valence |-> -3],
    [word |-> "feel_like", category |-> "emotional_reasoning",
     subcategory |-> "none", weight |-> 20,
     contradicts |-> {},
     context_required |-> FALSE,
     valid_contexts |->
        <<>>,
     emotional_valence |-> -2]
  >>

\* negation_patterns
hard_negation ==
  {"not", "never", "no", "don't", "won't", "can't", "isn't", "wasn't"}

soft_negation ==
  {"barely", "hardly", "scarcely", "rarely", "seldom"}

conditional_negation ==
  {"unless", "except", "but", "however", "although"}

\* amplifiers
amplifiers_extreme ==
  {"very", "extremely", "completely", "totally", "utterly", "absolutely"}

amplifiers_moderate ==
  {"really", "quite", "particularly", "especially"}

amplifiers_emotional ==
  {"horribly", "terribly", "awfully", "dreadfully"}

\* diminishers
diminishers_uncertainty ==
  {"somewhat", "kind_of", "a_bit", "slightly", "maybe", "perhaps"}

diminishers_qualification ==
  {"almost", "nearly", "practically", "virtually"}

diminishers_minimization ==
  {"just", "only", "merely", "simply"}

\* wordLookup.get(word): the lexicon entry of a word, or the empty sequence
\* (undefined) when the word is not a key of the lexicon.
wordLookup(word) ==
  SelectSeq(lexicon, LAMBDA e : e.word = word)

-----------------------------------------------------------------------------
(* Units of the exact arithmetic                                           *)

\* One whole (1.0) of an adjusted weight: tenths x sixtieths x thousandths.
Unit == 10 * 60 * 1000

\* The literal 0.3 of parseTextWithEnhancements, in 1/Unit.
hitThreshold == (3 * Unit) \div 10

\* Math.max(0.1, .) of calculateAdjustedWeight, in 1/Unit.
weightFloor == Unit \div 10

-----------------------------------------------------------------------------
(* tokenize                                                                *)

\* .replace(/[.,!?;:"'()\[\]{}<>]/g, ' $& ') on s[from .. to]: every
\* punctuation character gets a space on either side.  The range is
\* halved so that long texts do not nest deeply.
RECURSIVE padPunctuation(_, _, _)
padPunctuation(s, from, to) ==
  IF to < from THEN <<>>
  ELSE IF from = to
       THEN (IF s[from] \in Punctuation THEN <<" ", s[from], " ">>
             ELSE <<s[from]>>)
       ELSE padPunctuation(s, from, (from + to) \div 2)
            \o padPunctuation(s, (from + to) \div 2 + 1, to)

\* .split(/\s+/).filter(token => token.length > 0): the maximal runs of
\* non-whitespace characters, in order.
splitWords(s) ==
  LET indices == [i \in 1..Len(s) |-> i]
      starts == SelectSeq(indices,
                  LAMBDA i : s[i] \notin Whitespace
                             /\ (i = 1 \/ s[i - 1] \in Whitespace))
      ends == SelectSeq(indices,
                LAMBDA i : s[i] \notin Whitespace
                           /\ (i = Len(s) \/ s[i + 1] \in Whitespace))
  IN  [k \in 1..Len(starts) |-> SubSeq(s, starts[k], ends[k])]

\* words.forEach of tokenize: the k-th word (1-based) is pushed with the
\* running character offset, which has grown by word.length + 1 for every
\* earlier word.
pushTokens(text, words) ==
  [k \in 1..Len(words) |->
     LET position ==
           Sum([j \in 1..(k - 1) |-> Len(words[j]) + 1])
     IN  [word |-> words[k],
          original |-> substring(text, position, position + Len(words[k])),
          position |-> k - 1,
          charPosition |-> position,
          isPunctuation |-> \A i \in 1..Len(words[k]) :
                               words[k][i] \in Punctuation]]

tokenize(text) ==
  IF text = <<>> THEN <<>>
  ELSE LET lowered == [i \in 1..Len(text) |-> toLowerCase(text[i])]
           words == splitWords(padPunctuation(lowered, 1, Len(lowered)))
       IN  pushTokens(text, words)

-----------------------------------------------------------------------------
(* detectNegationAdvanced                                                  *)

\* negationTypes: the type of a negator word, "none" for other words.  The
\* three word lists are disjoint.
negationTypeOf(word) ==
  IF word \in hard_negation THEN "hard"
  ELSE IF word \in soft_negation THEN "soft"
  ELSE IF word \in conditional_negation THEN "conditional"
  ELSE "none"

\* negationTypes[type].strength in tenths: 1.0, 0.6, 0.3.
negationStrength(type) ==
  IF type = "hard" THEN 10 ELSE IF type = "soft" THEN 6 ELSE 3

\* data.strength * (1 - (distance / 6)) in sixtieths.
effectiveness(type, distance) == negationStrength(type) * (6 - distance)

\* The double computed for soft at distance 5, 0.6 * (1 - 5/6), is
\* 0.09999999999999998, one rounding step below the exact 0.1 that
\* conditional at distance 4 yields; every other (type, distance) pair
\* compares in doubles as it does exactly.
roundsBelow(type, distance) ==
  IF type = "soft" /\ distance = 5 THEN 1 ELSE 0

noNegation ==
  [isNegated |-> FALSE, type |-> "none", strength |-> 0, below |-> 0,
   negator |-> "null", distance |-> -1]

\* The context-window loop: i runs from max(0, tokenIndex - 5) to tokenIndex - 1
\* (0-based); the candidate replaces the best when strictly more effective.
RECURSIVE scanNegators(_, _, _, _)
scanNegators(tokens, tokenIndex, i, bestNegation) ==
  IF i >= tokenIndex THEN bestNegation
  ELSE LET word == Str(tokens[i + 1].word)
           type == negationTypeOf(word)
           distance == tokenIndex - i
           e == effectiveness(type, distance)
           b == roundsBelow(type, distance)
           better == \/ e > bestNegation.strength
                     \/ /\ e = bestNegation.strength
                        /\ b < bestNegation.below
       IN  scanNegators(tokens, tokenIndex, i + 1,
             IF type # "none" /\ better
             THEN [isNegated |-> TRUE, type |-> type, strength |-> e,
                   below |-> b, negator |-> word, distance |-> distance]
             ELSE bestNegation)

\* A count over the whole context window of five tokens instead of three.
doubleNegationCountOverWindow(tokens, tokenIndex) ==
  Cardinality({i \in Max(0, tokenIndex - 5)..(tokenIndex - 1) :
                 Str(tokens[i + 1].word) \in hard_negation})

\* The number of hard negators among the up to three preceding tokens.
doubleNegationCount(tokens, tokenIndex) ==
  Cardinality({i \in Max(0, tokenIndex - 3)..(tokenIndex - 1) :
                 Str(tokens[i + 1].word) \in hard_negation})

\* The cancellation with a count of the negators of every type among the
\* up to three preceding tokens.
detectNegationAdvancedCountingAll(tokenIndex, tokens) ==
  LET bestNegation ==
        scanNegators(tokens, tokenIndex, Max(0, tokenIndex - 5), noNegation)
      count ==
        Cardinality({i \in Max(0, tokenIndex - 3)..(tokenIndex - 1) :
                       negationTypeOf(Str(tokens[i + 1].word)) # "none"})
  IN  IF bestNegation.isNegated /\ count > 1 /\ count % 2 = 0
      THEN [bestNegation EXCEPT !.isNegated = FALSE, !.strength = 0,
                                !.below = 0, !.type = "double_negative"]
      ELSE bestNegation

detectNegationAdvanced(tokenIndex, tokens) ==
  LET bestNegation ==
        scanNegators(tokens, tokenIndex, Max(0, tokenIndex - 5), noNegation)
      count == doubleNegationCount(tokens, tokenIndex)
  IN  IF bestNegation.isNegated /\ count > 1 /\ count % 2 = 0
      THEN [bestNegation EXCEPT !.isNegated = FALSE, !.strength = 0,
                                !.below = 0, !.type = "double_negative"]
      ELSE bestNegation

-----------------------------------------------------------------------------
(* analyzeModifiersAdvanced                                                *)

amplifierType(word) ==
  IF word \in amplifiers_extreme THEN "extreme"
  ELSE IF word \in amplifiers_moderate THEN "moderate"
  ELSE IF word \in amplifiers_emotional THEN "emotional"
  ELSE "none"

diminisherType(word) ==
  IF word \in diminishers_uncertainty THEN "uncertainty"
  ELSE IF word \in diminishers_qualification THEN "qualification"
  ELSE IF word \in diminishers_minimization THEN "minimization"
  ELSE "none"

\* The steps 0.5, 0.3, 0.4 added per amplifier, in tenths.
amplifierStep(type) ==
  IF type = "extreme" THEN 5 ELSE IF type = "moderate" THEN 3 ELSE 4

\* The steps 0.4, 0.3, 0.2 subtracted per diminisher, in tenths.
diminisherStep(type) ==
  IF type = "uncertainty" THEN 4 ELSE IF type = "qualification" THEN 3 ELSE 2

\* Math.max(0.5, 1.0 - (distance * 0.2)) in tenths.
distanceWeight(distance) == Max(5, 10 - 2 * distance)

\* The loop over the up to three preceding tokens; the multiplier is in
\* thousandths.
RECURSIVE scanModifiers(_, _, _, _)
scanModifiers(tokens, tokenIndex, i, acc) ==
  IF i >= tokenIndex THEN acc
  ELSE LET word == Str(tokens[i + 1].word)
           distance == tokenIndex - i
           w == distanceWeight(distance)
           a == amplifierType(word)
           d == diminisherType(word)
           up == IF a # "none" THEN 10 * amplifierStep(a) * w ELSE 0
           down == IF d # "none" THEN 10 * diminisherStep(d) * w ELSE 0
       IN  scanModifiers(tokens, tokenIndex, i + 1,
             [multiplier |-> acc.multiplier + up - down,
              intensifiers |->
                IF a # "none"
                THEN Append(acc.intensifiers,
                            [word |-> word, type |-> a, distance |-> distance])
                ELSE acc.intensifiers,
              diminishers |->
                IF d # "none"
                THEN Append(acc.diminishers,
                            [word |-> word, type |-> d, distance |-> distance])
                ELSE acc.diminishers])

\* The multiplier left unclamped after a scan of every preceding token.
analyzeModifiersUnclamped(tokenIndex, tokens) ==
  LET acc == scanModifiers(tokens, tokenIndex, 0,
               [multiplier |-> 1000, intensifiers |-> <<>>,
                diminishers |-> <<>>])
      hasConflict == Len(acc.intensifiers) > 0 /\ Len(acc.diminishers) > 0
      conflictFactor ==
        2 * Min(Len(acc.intensifiers), Len(acc.diminishers))
      reduced == IF hasConflict
                 THEN (acc.multiplier * (10 - conflictFactor)) \div 10
                 ELSE acc.multiplier
  IN  [multiplier |-> reduced,
       intensifiers |-> acc.intensifiers,
       diminishers |-> acc.diminishers,
       hasConflict |-> hasConflict]

analyzeModifiersAdvanced(tokenIndex, tokens) ==
  LET acc == scanModifiers(tokens, tokenIndex, Max(0, tokenIndex - 3),
               [multiplier |-> 1000, intensifiers |-> <<>>,
                diminishers |-> <<>>])
      hasConflict == Len(acc.intensifiers) > 0 /\ Len(acc.diminishers) > 0
      \* conflictFactor = min(#intensifiers, #diminishers) * 0.2, in tenths
      conflictFactor ==
        2 * Min(Len(acc.intensifiers), Len(acc.diminishers))
      reduced == IF hasConflict
                 THEN (acc.multiplier * (10 - conflictFactor)) \div 10
                 ELSE acc.multiplier
  IN  [multiplier |-> Max(100, Min(3000, reduced)),
       intensifiers |-> acc.intensifiers,
       diminishers |-> acc.diminishers,
       hasConflict |-> hasConflict]

-----------------------------------------------------------------------------
(* extractEnhancedContext, matchSemanticPattern, calculateAdjustedWeight   *)

\* context_config.window_size
contextWindow == 5

\* The words of tokens[from .. to - 1] (0-based slice).
sliceWords(tokens, from, to) ==
  [k \in 1..(to - from) |-> tokens[from + k].word]

extractEnhancedContext(tokens, index) ==
  LET start == Max(0, index - contextWindow)
      end == Min(Len(tokens), index + contextWindow + 1)
  IN  [preceding |-> sliceWords(tokens, start, index),
       following |-> sliceWords(tokens, index + 1, end),
       fullWindow |-> sliceWords(tokens, start, end)]

\* The first valid context, in key order, that the joined window or the
\* joined preceding words contain; the empty sequence when none does.
RECURSIVE firstValidContext(_, _, _)
firstValidContext(contexts, fullContext, precedingContext) ==
  IF contexts = <<>> THEN <<>>
  ELSE IF \/ includes(fullContext, Head(contexts).pattern)
          \/ includes(precedingContext, Head(contexts).pattern)
       THEN <<Head(contexts)>>
       ELSE firstValidContext(Tail(contexts), fullContext, precedingContext)

matchSemanticPattern(token, context) ==
  LET found == wordLookup(token)
  IN  IF found = <<>> THEN [match |-> FALSE, contextPattern |-> "none",
                            contextWeight |-> 0]
      ELSE LET marker == found[1]
               hit == IF marker.context_required
                         /\ marker.valid_contexts # <<>>
                      THEN firstValidContext(marker.valid_contexts,
                                             join(context.fullWindow, "_"),
                                             join(context.preceding, "_"))
                      ELSE <<>>
           IN  IF hit # <<>>
               THEN [match |-> TRUE, contextPattern |-> hit[1].pattern,
                     contextWeight |-> hit[1].weight]
               ELSE [match |-> TRUE, contextPattern |-> "general",
                     contextWeight |-> marker.weight]

\* Weights in tenths, strength in sixtieths, multiplier in thousandths; the
\* result is in 1/Unit.
calculateAdjustedWeight(baseWeight, negationState, modifierEffect, semanticContext) ==
  IF ~semanticContext.match THEN 0
  ELSE LET w == IF semanticContext.contextWeight # 0
                THEN semanticContext.contextWeight ELSE baseWeight
           kept == IF negationState.isNegated
                   THEN 60 - negationState.strength ELSE 60
       IN  Max(weightFloor, w * kept * modifierEffect.multiplier)

\* options.temporalSegments || 3
temporalSegments == 3

\* position < totalLength / temporalSegments, cleared of the division.
getTemporalSegment(position, totalLength) ==
  IF position * temporalSegments < totalLength THEN "early"
  ELSE IF position * temporalSegments < 2 * totalLength THEN "middle"
  ELSE "late"

-----------------------------------------------------------------------------
(* parseTextWithEnhancements                                               *)

\* The hit object of parseTextWithEnhancements.  The fields context,
\* clinicalNote and token of the source's hit are left out: no later stage
\* of the pipeline reads them.
hitObject(token, i, totalLength, marker, negationState, modifierEffect, semanticContext) ==
  [word |-> Str(token.word),
   originalWord |-> Str(token.original),
   position |-> i,
   charPosition |-> token.charPosition,
   category |-> marker.category,
   subcategory |-> marker.subcategory,
   baseWeight |-> marker.weight,
   adjustedWeight |->
     calculateAdjustedWeight(marker.weight, negationState, modifierEffect,
                             semanticContext),
   isNegated |-> negationState.isNegated,
   negationType |-> negationState.type,
   negationStrength |-> negationState.strength,
   modifierEffect |-> modifierEffect.multiplier,
   intensifiers |-> modifierEffect.intensifiers,
   diminishers |-> modifierEffect.diminishers,
   hasModifierConflict |-> modifierEffect.hasConflict,
   semanticContext |-> semanticContext.contextPattern,
   temporalSegment |-> getTemporalSegment(i, totalLength),
   emotionalValence |-> marker.emotional_valence]

\* The body of the loop for token i (0-based) of a lexicon word: context,
\* negation state, modifier effect and semantic context, then the hit.
makeHit(tokens, i, marker) ==
  hitObject(tokens[i + 1], i, Len(tokens), marker,
            detectNegationAdvanced(i, tokens),
            analyzeModifiersAdvanced(i, tokens),
            matchSemanticPattern(Str(tokens[i + 1].word),
                                 extractEnhancedContext(tokens, i)))

\* The loop of parseTextWithEnhancements: the tokens that are not
\* punctuation and are lexicon words, in order, each turned into a hit and
\* kept when its adjusted weight exceeds the literal 0.3.
parseTextWithEnhancements(text) ==
  LET tokens == tokenize(text)
      markers == SelectSeq([i \in 1..Len(tokens) |-> i - 1],
                   LAMBDA i : ~tokens[i + 1].isPunctuation
                              /\ wordLookup(Str(tokens[i + 1].word)) # <<>>)
      built == [k \in 1..Len(markers) |->
                  makeHit(tokens, markers[k],
                          wordLookup(Str(tokens[markers[k] + 1].word))[1])]
  IN  SelectSeq(built, LAMBDA hit : hit.adjustedWeight > hitThreshold)

-----------------------------------------------------------------------------
(* KNOWLEDGE_BASE: patterns, drivers, pattern_relationships                *)

\* patterns, in key order; weight_multiplier is in tenths.
patterns ==
  <<[key |-> "absolutist", driver |-> "control",
     severity_threshold |-> 3, weight_multiplier |-> 12],
    [key |-> "imperative", driver |-> "validation",
     severity_threshold |-> 2, weight_multiplier |-> 13],
    [key |-> "catastrophizing", driver |-> "safety",
     severity_threshold |-> 2, weight_multiplier |-> 15],
    [key |-> "self_critic", driver |-> "validation",
     severity_threshold |-> 2, weight_multiplier |-> 14],
    [key |-> "personalization", driver |-> "responsibility",
     severity_threshold |-> 1, weight_multiplier |-> 13],
    [key |-> "mind_reading", driver |-> "validation",
     severity_threshold |-> 2, weight_multiplier |-> 11],
    [key |-> "emotional_reasoning", driver |-> "certainty",
     severity_threshold |-> 2, weight_multiplier |-> 11]>>

\* kb.patterns[category]: the entry, or the empty sequence.
patternInfo(category) ==
  SelectSeq(patterns, LAMBDA p : p.key = category)

\* drivers, in key order, with their conflicts_with lists.
drivers ==
  <<[key |-> "control", conflicts_with |-> {"acceptance", "flexibility"}],
    [key |-> "validation",
     conflicts_with |-> {"autonomy", "self_compassion"}],
    [key |-> "safety", conflicts_with |-> {"exploration", "growth"}],
    [key |-> "responsibility",
     conflicts_with |-> {"self_compassion", "delegation"}],
    [key |-> "autonomy", conflicts_with |-> {"connection", "compliance"}]>>

\* kb.drivers[driver]: the entry, or the empty sequence.
driverInfo(driver) ==
  SelectSeq(drivers, LAMBDA d : d.key = driver)

\* pattern_relationships, in key order; an absent conflicts_with is empty.
pattern_relationships ==
  <<[key |-> "absolutist",
     reinforces |-> {"catastrophizing", "imperative", "self_critic"},
     conflicts_with |-> {"uncertainty_tolerance", "flexible_thinking"}],
    [key |-> "self_critic",
     reinforces |-> {"personalization", "imperative"},
     conflicts_with |-> {}],
    [key |-> "catastrophizing",
     reinforces |-> {"anxiety", "avoidance"},
     conflicts_with |-> {}],
    [key |-> "imperative",
     reinforces |-> {"self_critic", "guilt"},
     conflicts_with |-> {}]>>

-----------------------------------------------------------------------------
(* detectPatternClusters, analyzeClusterPatterns                           *)

\* [...hits].sort((a, b) => a.position - b.position): a stable insertion
\* sort by position.
RECURSIVE sortByPosition(_)
sortByPosition(hits) ==
  IF hits = <<>> THEN <<>>
  ELSE LET rest == sortByPosition(SubSeq(hits, 1, Len(hits) - 1))
           last == hits[Len(hits)]
           before == SelectSeq(rest, LAMBDA h : h.position <= last.position)
           after == SelectSeq(rest, LAMBDA h : h.position > last.position)
       IN  before \o <<last>> \o after

\* Max distance between markers in a cluster.
clusterThreshold == 5

\* The grouping loop: groups of consecutive sorted hits whose neighbours are
\* at most clusterThreshold apart; groups of fewer than two are dropped.
RECURSIVE groupClusters(_, _, _)
groupClusters(sortedHits, i, currentCluster) ==
  IF i > Len(sortedHits)
  THEN (IF Len(currentCluster) >= 2 THEN <<currentCluster>> ELSE <<>>)
  ELSE IF currentCluster = <<>>
       THEN groupClusters(sortedHits, i + 1, <<sortedHits[i]>>)
       ELSE LET lastHit == currentCluster[Len(currentCluster)]
                distance == sortedHits[i].position - lastHit.position
            IN  IF distance <= clusterThreshold
                THEN groupClusters(sortedHits, i + 1,
                                   Append(currentCluster, sortedHits[i]))
                ELSE (IF Len(currentCluster) >= 2
                      THEN <<currentCluster>> ELSE <<>>)
                     \o groupClusters(sortedHits, i + 1, <<sortedHits[i]>>)

\* patternCounts: a plain object from category to the number of hits.
analyzeClusterPatterns(cluster) ==
  LET cats == {cluster[i].category : i \in 1..Len(cluster)}
  IN  [counts |-> [c \in cats |->
                     Cardinality({i \in 1..Len(cluster) :
                                     cluster[i].category = c})],
       diversity |-> Cardinality(cats)]

detectPatternClusters(hits) ==
  IF Len(hits) < 2 THEN <<>>
  ELSE LET groups == groupClusters(sortByPosition(hits), 1, <<>>)
       IN  [k \in 1..Len(groups) |->
              [id |-> k - 1,
               markers |-> [i \in 1..Len(groups[k]) |-> groups[k][i].position],
               size |-> Len(groups[k]),
               patterns |-> analyzeClusterPatterns(groups[k]),
               startPosition |-> groups[k][1].position,
               endPosition |-> groups[k][Len(groups[k])].position]]

-----------------------------------------------------------------------------
(* aggregatePatternsWithClusters                                           *)

\* One millionth: the unit of confidence, severity and coherence values,
\* which are rounded down to it.
Micro == 1000 * 1000

\* A value in 1/Unit as millionths.
toMicro(w) == (w * 5) \div 3

\* The categories of the hits in order of first occurrence: the key order of
\* the patternScores object.
RECURSIVE categoriesOf(_, _)
categoriesOf(hits, seen) ==
  IF hits = <<>> THEN <<>>
  ELSE IF Head(hits).category \in seen THEN categoriesOf(Tail(hits), seen)
  ELSE <<Head(hits).category>>
       \o categoriesOf(Tail(hits), seen \cup {Head(hits).category})

\* Tenths: 0.5 for fewer than two positions, else 0.3 when the variance of
\* the gaps is below half the ideal gap and 0.7 otherwise.  With n gaps g,
\* variance = (n*Sum(g^2) - Sum(g)^2) / n^2 and idealGap = totalLength / P.
calculateEnhancedDistributionScore(positions, totalLength) ==
  IF Len(positions) < 2 THEN 5
  ELSE LET n == Len(positions) - 1
           gaps == [i \in 1..n |-> positions[i + 1] - positions[i]]
           squares == [i \in 1..n |-> gaps[i] * gaps[i]]
           spreadNum == n * Sum(squares) - Sum(gaps) * Sum(gaps)
       IN  IF 2 * Len(positions) * spreadNum < n * n * totalLength
           THEN 3 ELSE 7

\* The accumulation with a negated hit counted at full weight.
accumulateFullWeight(hits, category) ==
  LET own == SelectSeq(hits, LAMBDA h : h.category = category)
      weights == [i \in 1..Len(own) |-> own[i].adjustedWeight]
      inSegment(seg) ==
        Sum([i \in 1..Len(own) |->
               IF own[i].temporalSegment = seg THEN own[i].adjustedWeight
               ELSE 0])
  IN  [category |-> category,
       score |-> Sum(weights),
       count |-> Len(own),
       weightedScore |-> Sum(weights),
       positions |-> [i \in 1..Len(own) |-> own[i].position],
       negated |-> Len(SelectSeq(own, LAMBDA h : h.isNegated)),
       temporalDistribution |->
         [early |-> inSegment("early"), middle |-> inSegment("middle"),
          late |-> inSegment("late")],
       clusters |-> <<>>]

\* The per-category accumulation of the hits.forEach loop.
accumulate(hits, category) ==
  LET own == SelectSeq(hits, LAMBDA h : h.category = category)
      weights == [i \in 1..Len(own) |-> own[i].adjustedWeight]
      halved == [i \in 1..Len(own) |->
                   IF own[i].isNegated THEN own[i].adjustedWeight \div 2
                   ELSE own[i].adjustedWeight]
      inSegment(seg) ==
        Sum([i \in 1..Len(own) |->
               IF own[i].temporalSegment = seg THEN own[i].adjustedWeight
               ELSE 0])
  IN  [category |-> category,
       score |-> Sum(weights),
       count |-> Len(own),
       weightedScore |-> Sum(halved),
       positions |-> [i \in 1..Len(own) |-> own[i].position],
       negated |-> Len(SelectSeq(own, LAMBDA h : h.isNegated)),
       temporalDistribution |->
         [early |-> inSegment("early"), middle |-> inSegment("middle"),
          late |-> inSegment("late")],
       clusters |-> <<>>]

\* data.confidence before and after the pattern's weight multiplier, in
\* millionths:
\*   0.25*min(count/5,1) + 0.25*weightedScore/(count*5)
\*   + 0.2*distributionFactor + 0.2*min(#clusters/3,1)
\*   + 0.1*(1 - negated/count*0.5), then *= weight_multiplier.
patternConfidence(data, totalHits) ==
  LET countFactor == Min(data.count, 5) * (Micro \div 20)
      weightFactor == data.weightedScore \div (12 * data.count)
      distributionFactor ==
        calculateEnhancedDistributionScore(data.positions, totalHits)
          * (Micro \div 50)
      clusterFactor == (Min(Len(data.clusters), 3) * (Micro \div 5)) \div 3
      negationFactor ==
        (Micro \div 10) - (data.negated * (Micro \div 20)) \div data.count
      raw == countFactor + weightFactor + distributionFactor
               + clusterFactor + negationFactor
      pattern == patternInfo(data.category)
  IN  IF pattern # <<>> THEN (raw * pattern[1].weight_multiplier) \div 10
      ELSE raw

\* data.severity: weightedScore >= severity_threshold.
patternSeverity(data) ==
  LET pattern == patternInfo(data.category)
  IN  pattern # <<>>
      /\ data.weightedScore >= pattern[1].severity_threshold * Unit

\* The global temporalDistribution: per segment, category -> summed weight.
segmentDistribution(hits, seg) ==
  LET own == SelectSeq(hits, LAMBDA h : h.temporalSegment = seg)
      cats == {own[i].category : i \in 1..Len(own)}
  IN  [c \in cats |->
         Sum([i \in 1..Len(own) |->
                IF own[i].category = c THEN own[i].adjustedWeight ELSE 0])]

\* The whole aggregation.  clusters.forEach calls
\* cluster.patterns.counts.forEach, and counts is a plain object: with at
\* least one cluster the call throws a TypeError (threw), with none the
\* loop body never runs and every clusters list stays empty.
aggregatePatternsWithClusters(hits) ==
  LET clusters == detectPatternClusters(hits)
      cats == categoriesOf(hits, {})
      scored == [k \in 1..Len(cats) |->
                   LET data == accumulate(hits, cats[k])
                   IN  [category |-> data.category,
                        score |-> data.score,
                        count |-> data.count,
                        weightedScore |-> data.weightedScore,
                        positions |-> data.positions,
                        negated |-> data.negated,
                        temporalDistribution |-> data.temporalDistribution,
                        clusters |-> data.clusters,
                        confidence |-> patternConfidence(data, Len(hits)),
                        severity |-> patternSeverity(data)]]
  IN  [threw |-> clusters # <<>>,
       patternScores |-> scored,
       temporalDistribution |->
         [early |-> segmentDistribution(hits, "early"),
          middle |-> segmentDistribution(hits, "middle"),
          late |-> segmentDistribution(hits, "late")],
       clusters |-> clusters]

-----------------------------------------------------------------------------
(* inferDriversWithConfidence                                              *)

\* The drivers of the scored patterns in order of first occurrence: the key
\* order of the driverScores object.  A category without a pattern entry
\* contributes nothing.
RECURSIVE driversOf(_, _)
driversOf(patternScores, seen) ==
  IF patternScores = <<>> THEN <<>>
  ELSE LET pattern == patternInfo(Head(patternScores).category)
       IN  IF pattern = <<>> \/ pattern[1].driver \in seen
           THEN driversOf(Tail(patternScores), seen)
           ELSE <<pattern[1].driver>>
                \o driversOf(Tail(patternScores),
                             seen \cup {pattern[1].driver})

\* One tenth of a Unit: the unit of a driver's weightedScore, which sums
\* weightedScore * weight_multiplier with the multiplier in tenths.
\* normalizedScore = min(10, weightedScore / 5) is held as the weightedScore
\* capped at 50, so that n stands for n / (50 * Unit).
inferDriversWithConfidence(patternScores) ==
  LET names == driversOf(patternScores, {})
      contributing(driver) ==
        SelectSeq(patternScores,
                  LAMBDA p : patternInfo(p.category) # <<>>
                             /\ patternInfo(p.category)[1].driver = driver)
      entry(driver) ==
        LET own == contributing(driver)
            weighted ==
              Sum([i \in 1..Len(own) |->
                     own[i].weightedScore
                       * patternInfo(own[i].category)[1].weight_multiplier])
            info == driverInfo(driver)
        IN  [driver |-> driver,
             score |-> Sum([i \in 1..Len(own) |-> own[i].score]),
             weightedScore |-> weighted,
             contributingPatterns |->
               [i \in 1..Len(own) |-> own[i].category],
             confidence |->
               CHOOSE c \in {own[i].confidence : i \in 1..Len(own)} \cup {0} :
                 \A i \in 1..Len(own) : own[i].confidence <= c,
             normalizedScore |-> Min(10 * 50 * Unit, weighted),
             primary |-> Min(10 * 50 * Unit, weighted) >= 5 * 50 * Unit,
             conflicts |->
               IF info # <<>> THEN info[1].conflicts_with ELSE {}]
  IN  [k \in 1..Len(names) |-> entry(names[k])]

-----------------------------------------------------------------------------
(* detectEnhancedConflicts                                                 *)

\* A conflict record; fields that a conflict type does not carry are empty.
conflict(type, words, categories, positions, names, distance, weight, severity) ==
  [type |-> type, words |-> words, categories |-> categories,
   positions |-> positions, drivers |-> names, distance |-> distance,
   weight |-> weight, severity |-> severity]

\* 1. Driver-level conflicts: pairs i < j in key order where the first
\* driver's conflicts_with names the second and both normalized scores
\* exceed 3.  severity = (d1Score + d2Score) / 20, in millionths.
driverConflicts(driverScores) ==
  LET pairs == {<<i, j>> \in (1..Len(driverScores)) \X (1..Len(driverScores)) :
                  /\ i < j
                  /\ driverInfo(driverScores[i].driver) # <<>>
                  /\ driverInfo(driverScores[j].driver) # <<>>
                  /\ driverScores[j].driver
                       \in driverInfo(driverScores[i].driver)[1].conflicts_with
                  /\ driverScores[i].normalizedScore > 3 * 50 * Unit
                  /\ driverScores[j].normalizedScore > 3 * 50 * Unit}
      ordered == SelectSeq(
                   [k \in 1..(Len(driverScores) * Len(driverScores)) |->
                      <<((k - 1) \div Len(driverScores)) + 1,
                        ((k - 1) % Len(driverScores)) + 1>>],
                   LAMBDA p : p \in pairs)
  IN  [k \in 1..Len(ordered) |->
         LET d1 == driverScores[ordered[k][1]]
             d2 == driverScores[ordered[k][2]]
         IN  conflict("driver_conflict", <<>>, <<>>, <<>>,
                      <<d1.driver, d2.driver>>, 0, 0,
                      (d1.normalizedScore + d2.normalizedScore) \div 600)]

\* 2. Lexical contradictions: for hit i, the later hits j < min(i + 10, n)
\* (0-based) whose word the marker of hit i contradicts.
\* severity = (w1 + w2) * max(0, 1 - distance/20) * 0.3.
lexicalConflicts(hits) ==
  LET n == Len(hits)
      pairs == SelectSeq(
                 [k \in 1..(n * n) |->
                    <<((k - 1) \div n) + 1, ((k - 1) % n) + 1>>],
                 LAMBDA p :
                   /\ p[1] < p[2]
                   /\ p[2] - 1 < Min((p[1] - 1) + 10, n)
                   /\ wordLookup(hits[p[1]].word) # <<>>
                   /\ hits[p[2]].word
                        \in wordLookup(hits[p[1]].word)[1].contradicts)
  IN  [k \in 1..Len(pairs) |->
         LET hit == hits[pairs[k][1]]
             otherHit == hits[pairs[k][2]]
             distance == otherHit.position - hit.position
             distanceFactor == Max(0, 20 - distance)
         IN  conflict("lexical_contradiction",
                      <<hit.word, otherHit.word>>,
                      <<hit.category, otherHit.category>>,
                      <<hit.position, otherHit.position>>, <<>>,
                      distance, 0,
                      toMicro(((hit.adjustedWeight + otherHit.adjustedWeight)
                                 * distanceFactor * 3) \div 200))]

\* 3. Self-negation: negated hits of adjusted weight above 2;
\* severity = weight * 0.2.
selfNegationConflicts(hits) ==
  LET own == SelectSeq(hits, LAMBDA h : h.isNegated
                                        /\ h.adjustedWeight > 2 * Unit)
  IN  [k \in 1..Len(own) |->
         conflict("self_negation", <<own[k].word>>, <<own[k].category>>,
                  <<own[k].position>>, <<>>, 0, own[k].adjustedWeight,
                  toMicro(own[k].adjustedWeight \div 5))]

\* 4. Modifier conflicts: hits with both intensifiers and diminishers;
\* severity = weight * 0.15.
modifierConflicts(hits) ==
  LET own == SelectSeq(hits, LAMBDA h : h.hasModifierConflict)
  IN  [k \in 1..Len(own) |->
         conflict("modifier_conflict", <<own[k].word>>, <<own[k].category>>,
                  <<>>, <<>>, 0, 0,
                  toMicro((own[k].adjustedWeight * 3) \div 20))]

\* conflicts.sort((a, b) => b.severity - a.severity): stable, descending.
RECURSIVE sortBySeverity(_)
sortBySeverity(conflicts) ==
  IF conflicts = <<>> THEN <<>>
  ELSE LET rest == sortBySeverity(SubSeq(conflicts, 1, Len(conflicts) - 1))
           last == conflicts[Len(conflicts)]
           before == SelectSeq(rest, LAMBDA c : c.severity >= last.severity)
           after == SelectSeq(rest, LAMBDA c : c.severity < last.severity)
       IN  before \o <<last>> \o after

detectEnhancedConflicts(driverScores, hits) ==
  sortBySeverity(driverConflicts(driverScores) \o lexicalConflicts(hits)
                   \o selfNegationConflicts(hits) \o modifierConflicts(hits))

-----------------------------------------------------------------------------
(* analyzeTemporalShift, calculateEnhancedCoherence, metadata              *)

\* The shifts with the test |change| >= 1.
analyzeTemporalShiftInclusive(temporalDistribution) ==
  LET at(seg, cat) ==
        IF cat \in DOMAIN temporalDistribution[seg]
        THEN temporalDistribution[seg][cat] ELSE 0
      between(prev, seg) ==
        {[category |-> cat, from |-> prev, to |-> seg,
          change |-> at(seg, cat) - at(prev, cat),
          percentChange |->
            IF at(prev, cat) > 0
            THEN ((at(seg, cat) - at(prev, cat)) * 100) \div at(prev, cat)
            ELSE 100] :
           cat \in {c \in DOMAIN temporalDistribution[prev]
                            \cup DOMAIN temporalDistribution[seg] :
                      \/ at(seg, c) - at(prev, c) >= Unit
                      \/ at(prev, c) - at(seg, c) >= Unit}}
  IN  [shifts |-> between("early", "middle") \cup between("middle", "late")]

\* The shifts between consecutive segments: a category whose summed weight
\* changes by more than 1.  percentChange is in whole percent, rounded
\* down.  The result has no arc field.
analyzeTemporalShift(temporalDistribution) ==
  LET at(seg, cat) ==
        IF cat \in DOMAIN temporalDistribution[seg]
        THEN temporalDistribution[seg][cat] ELSE 0
      between(prev, seg) ==
        {[category |-> cat, from |-> prev, to |-> seg,
          change |-> at(seg, cat) - at(prev, cat),
          percentChange |->
            IF at(prev, cat) > 0
            THEN ((at(seg, cat) - at(prev, cat)) * 100) \div at(prev, cat)
            ELSE 100] :
           cat \in {c \in DOMAIN temporalDistribution[prev]
                            \cup DOMAIN temporalDistribution[seg] :
                      \/ at(seg, c) - at(prev, c) > Unit
                      \/ at(prev, c) - at(seg, c) > Unit}}
  IN  [shifts |-> between("early", "middle") \cup between("middle", "late")]

\* densityScore * 0.1 in millionths, with density = hits / spread and
\* densityScore = 1 - min(1, |density - 0.3| / 0.3).
calculateDistributionBonus(hits) ==
  IF Len(hits) < 3 THEN 0
  ELSE LET positions == {hits[i].position : i \in 1..Len(hits)}
           highest == CHOOSE p \in positions : \A q \in positions : q <= p
           lowest == CHOOSE p \in positions : \A q \in positions : p <= q
           spread == highest - lowest
           off == IF 10 * Len(hits) >= 3 * spread
                  THEN 10 * Len(hits) - 3 * spread
                  ELSE 3 * spread - 10 * Len(hits)
       IN  IF spread = 0 THEN 0
           ELSE (Micro \div 10)
                  - Min(Micro \div 10, ((Micro \div 10) * off) \div (3 * spread))

\* max(0.1, min(1, 0.7 - 0.1*Sum(severity || 0.5) + min(0.2, 0.05*#clusters)
\*                  + distributionBonus)), in millionths.
calculateEnhancedCoherence(hits, conflicts, clusters) ==
  LET conflictPenalty ==
        Sum([i \in 1..Len(conflicts) |->
               IF conflicts[i].severity = 0 THEN Micro \div 2
               ELSE conflicts[i].severity]) \div 10
      clusterBonus == Min(Micro \div 5, Len(clusters) * (Micro \div 20))
      distributionBonus == calculateDistributionBonus(hits)
  IN  Max(Micro \div 10,
          Min(Micro, (7 * Micro) \div 10 - conflictPenalty + clusterBonus
                       + distributionBonus))

\* text.split(/\s+/).length: one more than the number of maximal whitespace
\* runs (empty leading and trailing pieces are counted).
wordCount(text) ==
  1 + Cardinality({i \in 1..Len(text) :
                     text[i] \in Whitespace
                     /\ (i = 1 \/ text[i - 1] \notin Whitespace)})

\* The analysis object assembled by analyze.  threw: the aggregation raised
\* the TypeError and nothing after it ran.  The fields sentiment and
\* insights and the timing metadata are left out.
analysisObject(text, hits, aggregated, driverScores, conflicts) ==
  [threw |-> aggregated.threw,
   hits |-> hits,
   patterns |-> aggregated.patternScores,
   drivers |-> driverScores,
   conflicts |-> conflicts,
   temporalShift |-> analyzeTemporalShift(aggregated.temporalDistribution),
   clusters |-> aggregated.clusters,
   coherence |->
     calculateEnhancedCoherence(hits, conflicts, aggregated.clusters),
   wordCount |-> wordCount(text),
   markerCount |-> Len(hits)]

\* The stages of analyze after driver inference, after aggregation and
\* after parsing.
afterInference(text, hits, aggregated, driverScores) ==
  analysisObject(text, hits, aggregated, driverScores,
                 detectEnhancedConflicts(driverScores, hits))

afterAggregation(text, hits, aggregated) ==
  afterInference(text, hits, aggregated,
                 inferDriversWithConfidence(aggregated.patternScores))

afterParsing(text, hits) ==
  afterAggregation(text, hits, aggregatePatternsWithClusters(hits))

\* The part of analyze between the cache check and the statistics update:
\* what the call computes from the text alone.
computeAnalysis(text) == afterParsing(text, parseTextWithEnhancements(text))

-----------------------------------------------------------------------------
(* ConflictResolver                                                        *)

\* The concatenation of a sequence of sequences, by halves.
RECURSIVE flatten(_, _, _)
flatten(seqs, from, to) ==
  IF to < from THEN <<>>
  ELSE IF from = to THEN seqs[from]
  ELSE flatten(seqs, from, (from + to) \div 2)
       \o flatten(seqs, (from + to) \div 2 + 1, to)

\* The index pairs <<i, j>> with 1 <= i < j <= n in the order of the
\* nested loops.
orderedPairs(n) ==
  SelectSeq([k \in 1..(n * n) |-> <<((k - 1) \div n) + 1, ((k - 1) % n) + 1>>],
            LAMBDA p : p[1] < p[2])

\* detectNarrativeConflicts, first loop: every later hit whose word the
\* marker contradicts, kept when distanceFactor = max(0, 1 - distance/20)
\* exceeds 0.3; severity = (w1 + w2) * distanceFactor * 0.5.
narrativeLexical(hits) ==
  LET absDistance(p) ==
        IF hits[p[2]].position >= hits[p[1]].position
        THEN hits[p[2]].position - hits[p[1]].position
        ELSE hits[p[1]].position - hits[p[2]].position
      pairs == SelectSeq(orderedPairs(Len(hits)),
                 LAMBDA p :
                   /\ wordLookup(hits[p[1]].word) # <<>>
                   /\ hits[p[2]].word
                        \in wordLookup(hits[p[1]].word)[1].contradicts
                   /\ 10 * Max(0, 20 - absDistance(p)) > 3 * 20)
  IN  [k \in 1..Len(pairs) |->
         LET hit1 == hits[pairs[k][1]]
             hit2 == hits[pairs[k][2]]
             distance == absDistance(pairs[k])
         IN  conflict("lexical_contradiction", <<hit1.word, hit2.word>>,
                      <<hit1.category, hit2.category>>,
                      <<hit1.position, hit2.position>>, <<>>, distance, 0,
                      toMicro(((hit1.adjustedWeight + hit2.adjustedWeight)
                                 * Max(0, 20 - distance)) \div 40))]

\* detectNarrativeConflicts, second loop: negated hits of adjusted weight
\* above 1.5; severity = weight * 0.3.
narrativeSelfNegation(hits) ==
  LET own == SelectSeq(hits, LAMBDA h : h.isNegated
                                        /\ 2 * h.adjustedWeight > 3 * Unit)
  IN  [k \in 1..Len(own) |->
         conflict("self_negation", <<own[k].word>>, <<>>,
                  <<own[k].position>>, <<>>, 0, own[k].adjustedWeight,
                  toMicro((own[k].adjustedWeight * 3) \div 10))]

\* The third loop reads hit.modifiers, a field that the hits of
\* parseTextWithEnhancements do not have: it adds nothing.
detectNarrativeConflicts(hits) ==
  narrativeLexical(hits) \o narrativeSelfNegation(hits)

\* kb.pattern_relationships[p]: the entry, or the empty sequence.
relationshipInfo(p) ==
  SelectSeq(pattern_relationships, LAMBDA r : r.key = p)

\* detectPatternConflicts over the pattern scores in key order.
detectPatternConflicts(patternScores) ==
  LET pairs == orderedPairs(Len(patternScores))
      found(p) ==
        LET s1 == patternScores[p[1]]
            s2 == patternScores[p[2]]
            p1Info == relationshipInfo(s1.category)
            pattern1 == patternInfo(s1.category)
            pattern2 == patternInfo(s2.category)
            conflicting ==
              /\ p1Info # <<>>
              /\ s2.category \in p1Info[1].conflicts_with
              /\ 2 * s1.confidence > Micro
              /\ 2 * s2.confidence > Micro
            reinforced ==
              /\ p1Info # <<>>
              /\ s2.category \in p1Info[1].reinforces
              /\ pattern1 # <<>> /\ pattern2 # <<>>
              /\ pattern1[1].driver # pattern2[1].driver
              /\ driverInfo(pattern1[1].driver) # <<>>
              /\ driverInfo(pattern2[1].driver) # <<>>
              /\ pattern2[1].driver
                   \in driverInfo(pattern1[1].driver)[1].conflicts_with
        IN  (IF conflicting
             THEN <<conflict("pattern_conflict",
                             <<s1.category, s2.category>>, <<>>, <<>>, <<>>,
                             0, 0, (s1.confidence + s2.confidence) \div 2)>>
             ELSE <<>>)
            \o (IF reinforced
                THEN <<conflict("reinforced_conflict",
                                <<s1.category, s2.category>>, <<>>, <<>>,
                                <<pattern1[1].driver, pattern2[1].driver>>,
                                0, 0, Max(s1.confidence, s2.confidence))>>
                ELSE <<>>)
      each == [k \in 1..Len(pairs) |-> found(pairs[k])]
  IN  flatten(each, 1, Len(each))

\* detectTemporalConflicts: without an arc field in temporalShift it
\* returns the empty list.  With one (a sequence of [pattern, arcType] in
\* key order), every pair of patterns of the same driver of which one
\* resolves while the other escalates is a conflict of severity 0.6.
detectTemporalConflicts(temporalShift) ==
  IF "arc" \notin DOMAIN temporalShift THEN <<>>
  ELSE LET arcs == temporalShift.arc
           pairs == SelectSeq(orderedPairs(Len(arcs)),
                      LAMBDA p :
                        /\ patternInfo(arcs[p[1]].pattern) # <<>>
                        /\ patternInfo(arcs[p[2]].pattern) # <<>>
                        /\ patternInfo(arcs[p[1]].pattern)[1].driver
                             = patternInfo(arcs[p[2]].pattern)[1].driver
                        /\ {arcs[p[1]].arcType, arcs[p[2]].arcType}
                             = {"resolving", "escalating"})
       IN  [k \in 1..Len(pairs) |->
              conflict("temporal_conflict",
                       <<arcs[pairs[k][1]].pattern, arcs[pairs[k][2]].pattern>>,
                       <<>>, <<>>,
                       <<patternInfo(arcs[pairs[k][1]].pattern)[1].driver>>,
                       0, 0, (6 * Micro) \div 10)]

\* A resolver that starts, like the engine, from 0.7 when there is no
\* conflict.
calculateCoherenceFromBase(narrativeConflicts, driverConflictList) ==
  LET all == narrativeConflicts \o driverConflictList
      totalSeverity ==
        Sum([i \in 1..Len(all) |->
               IF all[i].severity = 0 THEN Micro \div 2 ELSE all[i].severity])
  IN  IF Len(all) = 0 THEN (7 * Micro) \div 10
      ELSE Max(Micro \div 10, Micro - totalSeverity \div (Len(all) * 2))

\* calculateCoherence, in millionths: 0.9 without conflicts, else
\* max(0.1, 1 - totalSeverity / (totalConflicts * 2)), a zero severity
\* counting as 0.5.
calculateCoherence(narrativeConflicts, driverConflictList) ==
  LET all == narrativeConflicts \o driverConflictList
      totalConflicts == Len(all)
      totalSeverity ==
        Sum([i \in 1..Len(all) |->
               IF all[i].severity = 0 THEN Micro \div 2 ELSE all[i].severity])
  IN  IF totalConflicts = 0 THEN (9 * Micro) \div 10
      ELSE Max(Micro \div 10, Micro - totalSeverity \div (totalConflicts * 2))

\* analyzeConflicts(analysis); analysis.conflicts stands in the drivers
\* slot.  conflict_density is left out.
analyzeConflicts(analysis) ==
  LET narrativeConflicts == detectNarrativeConflicts(analysis.hits)
      driverConflictList == analysis.conflicts
      patternConflicts == detectPatternConflicts(analysis.patterns)
      temporalConflicts == detectTemporalConflicts(analysis.temporalShift)
  IN  [narrative |-> narrativeConflicts,
       drivers |-> driverConflictList,
       patterns |-> patternConflicts,
       temporal |-> temporalConflicts,
       all |-> narrativeConflicts \o driverConflictList \o patternConflicts
                 \o temporalConflicts,
       overall_coherence |->
         calculateCoherence(narrativeConflicts, driverConflictList)]

-----------------------------------------------------------------------------
(* Cache system: simpleHash, getCacheKey, getFromCache, setToCache         *)

Digits36 ==
  <<"0","1","2","3","4","5","6","7","8","9","a","b","c","d","e","f","g","h",
    "i","j","k","l","m","n","o","p","q","r","s","t","u","v","w","x","y","z">>

\* Number.prototype.toString(36) for a non-negative integer.
RECURSIVE digits36(_)
digits36(n) ==
  IF n < 36 THEN Digits36[n + 1]
  ELSE digits36(n \div 36) \o Digits36[(n % 36) + 1]

\* Number.prototype.toString(36)
toString36(n) == IF n < 0 THEN "-" \o digits36(0 - n) ELSE digits36(n)

\* One pass of the loop body of simpleHash:
\* hash = ((hash << 5) - hash) + char, then hash & hash (ToInt32).  The
\* 32-bit value is held as two 16-bit halves <<hi, lo>> so that
\* 31 * hash + char wraps modulo 2^32 as in the code.
hashStep(hash, char) ==
  LET low == hash[2] * 31 + charCodeAt(char)
      high == hash[1] * 31 + (low \div 65536)
  IN  <<high % 65536, low % 65536>>

\* The loop body applied to str[from .. to] in order, starting from hash.
RECURSIVE hashChars(_, _, _, _)
hashChars(hash, str, from, to) ==
  IF to < from THEN hash
  ELSE hashStep(hashChars(hash, str, from, to - 1), str[to])

\* The number of characters hashed per level of hashLoop; it only shapes
\* the evaluation, not the value.
hashBlock == 4 * 4

\* The loop of simpleHash over the first n characters, a block at a time.
RECURSIVE hashLoop(_, _)
hashLoop(str, n) ==
  IF n <= hashBlock THEN hashChars(<<0, 0>>, str, 1, n)
  ELSE LET hash == hashLoop(str, n - hashBlock)
       IN  IF hash[1] >= 0
           THEN hashChars(hash, str, n - hashBlock + 1, n)
           ELSE hash

\* The signed 32-bit integer of two 16-bit halves.
toInt32(hi, lo) ==
  IF hi >= 32768 THEN (hi - 65536) * 65536 + lo ELSE hi * 65536 + lo

simpleHash(str) ==
  LET h == hashLoop(str, Len(str))
  IN  toString36(toInt32(h[1], h[2]))

\* JSON.stringify of an options object: a sequence of (key, boolean) pairs
\* in key order.
RECURSIVE stringifyEntries(_)
stringifyEntries(options) ==
  IF options = <<>> THEN <<>>
  ELSE <<"\"">> \o Head(options).key \o <<"\"", ":">>
       \o (IF Head(options).value THEN <<"t","r","u","e">>
           ELSE <<"f","a","l","s","e">>)
       \o (IF Len(options) > 1 THEN <<",">> ELSE <<>>)
       \o stringifyEntries(Tail(options))

stringify(options) == <<"{">> \o stringifyEntries(options) \o <<"}">>

getCacheKey(text, options) ==
  simpleHash(text) \o "-" \o simpleHash(stringify(options))

\* options.cache !== false
cacheEnabled(options) ==
  ~\E i \in 1..Len(options) :
      options[i].key = <<"c","a","c","h","e">> /\ options[i].value = FALSE

\* The cache is a Map: a sequence of (key, value) entries in insertion
\* order; a value is a reference to an analysis object.  getFromCache
\* yields the reference (0 for null) and the updated statistics.
getFromCache(entries, statistics, key) ==
  LET found == SelectSeq(entries, LAMBDA e : e.key = key)
  IN  IF found # <<>>
      THEN [cached |-> found[1].value,
            stats |-> [statistics EXCEPT !.cacheHits = @ + 1]]
      ELSE [cached |-> 0,
            stats |-> [statistics EXCEPT !.cacheMisses = @ + 1]]

\* The size above which setToCache deletes the first key.
cacheLimit == 100

\* Map.prototype.set: replace the value of a present key in place, append
\* an absent key.
mapSet(entries, key, value) ==
  IF \E i \in 1..Len(entries) : entries[i].key = key
  THEN [i \in 1..Len(entries) |->
          IF entries[i].key = key THEN [key |-> key, value |-> value]
          ELSE entries[i]]
  ELSE Append(entries, [key |-> key, value |-> value])

\* A cache that drops what it is given.
setToCacheDropping(entries, key, analysis) == entries

\* setToCache: a cache of more than cacheLimit entries loses its first
\* key, then the entry is set.
setToCache(entries, key, analysis) ==
  mapSet(IF Len(entries) > cacheLimit THEN Tail(entries) ELSE entries,
         key, analysis)

-----------------------------------------------------------------------------
(* Inputs                                                                  *)

\* "I am not never going to fail."
textNotNever ==
  <<"I"," ","a","m"," ","n","o","t"," ","n","e","v","e","r"," ","g","o","i",
    "n","g"," ","t","o"," ","f","a","i","l",".">>

\* "I should always be perfect, but sometimes I feel like a failure."
textPerfect ==
  <<"I"," ","s","h","o","u","l","d"," ","a","l","w","a","y","s"," ","b","e",
    " ","p","e","r","f","e","c","t",","," ","b","u","t"," ","s","o","m","e",
    "t","i","m","e","s"," ","I"," ","f","e","e","l"," ","l","i","k","e"," ",
    "a"," ","f","a","i","l","u","r","e",".">>

\* "The weather is nice today."
textWeather ==
  <<"T","h","e"," ","w","e","a","t","h","e","r"," ","i","s"," ","n","i","c",
    "e"," ","t","o","d","a","y",".">>

\* "very very very disaster x x very very very disaster x x x x very very very disaster"
textDisaster ==
  <<"v","e","r","y"," ","v","e","r","y"," ","v","e","r","y"," ","d","i","s",
    "a","s","t","e","r"," ","x"," ","x"," ","v","e","r","y"," ","v","e","r",
    "y"," ","v","e","r","y"," ","d","i","s","a","s","t","e","r"," ","x"," ",
    "x"," ","x"," ","x"," ","v","e","r","y"," ","v","e","r","y"," ","v","e",
    "r","y"," ","d","i","s","a","s","t","e","r">>

\* "I tried hard but failure came."
textButFailure ==
  <<"I"," ","t","r","i","e","d"," ","h","a","r","d"," ","b","u","t"," ","f",
    "a","i","l","u","r","e"," ","c","a","m","e",".">>

\* The texts submitted to analyze.
Texts ==
  {textNotNever, textPerfect, textWeather, textDisaster, textButFailure}

\* options = {} and options = { cache: false }
noOptions == <<>>
cacheOff == <<[key |-> <<"c","a","c","h","e">>, value |-> FALSE]>>

OptionSets == {noOptions, cacheOff}

\* The decimal digits of a non-negative integer, as characters.
RECURSIVE decimal(_)
decimal(n) ==
  IF n < 10 THEN <<Ascii[17 + n]>>
  ELSE Append(decimal(n \div 10), Ascii[17 + (n % 10)])

\* The k-th of a series of distinct short texts without markers:
\* "note 1", "note 2", ...
filler(k) == <<"n","o","t","e"," ">> \o decimal(k)

\* The values of options.minConfidence at construction: absent, or 0.5.
\* In 1/Unit; 0 stands for absent.
MinConfidenceOptions == {0, Unit \div 2}

-----------------------------------------------------------------------------
(* Bounds                                                                  *)

\* The number of analyze calls on Texts in one behaviour.
MaxCalls == 2

\* The number of analyses of the tracked text in one long run of the cache.
MaxTracked == 2

\* The number of filler texts analysed in one behaviour.
MaxFillers == 102

-----------------------------------------------------------------------------
(* The engine                                                              *)

VARIABLES
  minConfidenceThreshold,  \* this.minConfidenceThreshold, in 1/Unit
  cache,                   \* this.cache: Map entries in insertion order
  stats,                   \* this.stats
  objects,                 \* the analysis objects created so far
  returned,                \* the outcome of the latest call
  calls,                   \* analyze calls on Texts so far
  fillers                  \* filler texts analysed so far

vars == <<minConfidenceThreshold, cache, stats, objects, returned, calls,
          fillers>>

zeroStats ==
  [analyses |-> 0, totalMarkers |-> 0, totalWords |-> 0, cacheHits |-> 0,
   cacheMisses |-> 0]

\* The constructor: minConfidenceThreshold = options.minConfidence || 0.3,
\* an empty cache and zeroed statistics.
Init ==
  /\ \E minConfidence \in MinConfidenceOptions :
        minConfidenceThreshold =
          IF minConfidence # 0 THEN minConfidence ELSE (3 * Unit) \div 10
  /\ cache = <<>>
  /\ stats = zeroStats
  /\ objects = <<>>
  /\ returned = [op |-> "constructor", text |-> <<>>, options |-> <<>>,
                 outcome |-> "returned", analysis |-> 0, cached |-> FALSE]
  /\ calls = 0
  /\ fillers = 0

\* The outcome of a call as recorded in returned.
outcomeOf(op, text, options, outcome, analysis, cached) ==
  [op |-> op, text |-> text, options |-> options, outcome |-> outcome,
   analysis |-> analysis, cached |-> cached]

\* An analysis object that carries the running number of the analysis.
analyzeMissNumbered(text, options, cacheKey, statistics, computed) ==
  IF computed.threw
  THEN /\ stats' = statistics
       /\ returned' = outcomeOf("analyze", text, options, "threw", 0, FALSE)
       /\ UNCHANGED <<cache, objects>>
  ELSE /\ objects' = Append(objects, [text |-> text, options |-> options,
                                      cacheKey |-> cacheKey,
                                      number |-> statistics.analyses + 1])
       /\ stats' = [statistics EXCEPT
                      !.analyses = @ + 1,
                      !.totalMarkers = @ + computed.markerCount,
                      !.totalWords = @ + computed.wordCount]
       /\ cache' = IF cacheKey # "null"
                   THEN setToCache(cache, cacheKey, Len(objects) + 1)
                   ELSE cache
       /\ returned' = outcomeOf("analyze", text, options, "returned",
                                Len(objects) + 1, FALSE)

\* analyze after the cache check missed (or was skipped): the pipeline
\* either throws, leaving only the statistics of the cache check behind, or
\* creates the analysis object, updates the statistics and caches the
\* object under cacheKey.
analyzeMiss(text, options, cacheKey, statistics, computed) ==
  IF computed.threw
  THEN /\ stats' = statistics
       /\ returned' = outcomeOf("analyze", text, options, "threw", 0, FALSE)
       /\ UNCHANGED <<cache, objects>>
  ELSE /\ objects' = Append(objects, [text |-> text, options |-> options,
                                      cacheKey |-> cacheKey])
       /\ stats' = [statistics EXCEPT
                      !.analyses = @ + 1,
                      !.totalMarkers = @ + computed.markerCount,
                      !.totalWords = @ + computed.wordCount]
       /\ cache' = IF cacheKey # "null"
                   THEN setToCache(cache, cacheKey, Len(objects) + 1)
                   ELSE cache
       /\ returned' = outcomeOf("analyze", text, options, "returned",
                                Len(objects) + 1, FALSE)

\* analyze after the cache check: a cached object is returned as it is.
analyzeChecked(text, options, cacheKey, lookup) ==
  IF lookup.cached # 0
  THEN /\ stats' = lookup.stats
       /\ returned' = outcomeOf("analyze", text, options, "returned",
                                lookup.cached, TRUE)
       /\ UNCHANGED <<cache, objects>>
  ELSE analyzeMiss(text, options, cacheKey, lookup.stats,
                   computeAnalysis(text))

\* analyze with its cache key ("null" when options.cache is false).
analyzeKeyed(text, options, cacheKey) ==
  analyzeChecked(text, options, cacheKey,
                 IF cacheKey # "null"
                 THEN getFromCache(cache, stats, cacheKey)
                 ELSE [cached |-> 0, stats |-> stats])

\* analyze(text, options).  An analysis object is [text, options, cacheKey]:
\* its computed fields are computeAnalysis(text).  The call returns a
\* reference to an object (an index of objects) or throws.
analyze(text, options) ==
  analyzeKeyed(text, options,
               IF cacheEnabled(options) THEN getCacheKey(text, options)
               ELSE "null")

Analyze ==
  /\ calls < MaxCalls
  /\ \E text \in Texts, options \in OptionSets : analyze(text, options)
  /\ calls' = calls + 1
  /\ UNCHANGED <<minConfidenceThreshold, fillers>>

AnalyzeFiller ==
  /\ fillers < MaxFillers
  /\ analyze(filler(fillers + 1), noOptions)
  /\ fillers' = fillers + 1
  /\ UNCHANGED <<minConfidenceThreshold, calls>>

ClearCache ==
  /\ cache' = <<>>
  /\ returned' = [op |-> "clearCache", text |-> <<>>, options |-> <<>>,
                  outcome |-> "returned", analysis |-> 0, cached |-> FALSE]
  /\ UNCHANGED <<minConfidenceThreshold, stats, objects, calls, fillers>>

ResetStatistics ==
  /\ stats' = zeroStats
  /\ returned' = [op |-> "resetStatistics", text |-> <<>>,
                  options |-> <<>>, outcome |-> "returned", analysis |-> 0,
                  cached |-> FALSE]
  /\ UNCHANGED <<minConfidenceThreshold, cache, objects, calls, fillers>>

\* resolver.analyzeConflicts(analysis) on one of the analysis objects, as
\* test.js and the callers of the engine do with a returned analysis.  The
\* resolver keeps no state; the call and its argument are recorded.
AnalyzeConflicts ==
  /\ \E analysis \in 1..Len(objects) :
        returned' = [op |-> "analyzeConflicts", text |-> objects[analysis].text,
                     options |-> objects[analysis].options,
                     outcome |-> "returned", analysis |-> analysis,
                     cached |-> FALSE]
  /\ UNCHANGED <<minConfidenceThreshold, cache, stats, objects, calls,
                 fillers>>

Next == Analyze \/ ClearCache \/ ResetStatistics \/ AnalyzeConflicts

Spec == Init /\ [][Next]_vars

\* analyze(textWeather) with default options: the one text that the long
\* runs of the cache come back to.
AnalyzeTracked ==
  /\ calls < MaxTracked
  /\ analyze(textWeather, noOptions)
  /\ calls' = calls + 1
  /\ UNCHANGED <<minConfidenceThreshold, fillers>>

\* Long runs of the cache: the filler texts are analysed in order, with
\* analyses of textWeather in between.
NextCache == AnalyzeFiller \/ AnalyzeTracked

\* The engine constructed without options.
InitCache == Init /\ minConfidenceThreshold = (3 * Unit) \div 10

SpecCache == InitCache /\ [][NextCache]_vars

-----------------------------------------------------------------------------
(* analyzeBatch                                                            *)

\* The longest batch.
MaxBatch == 3

\* The batches: sequences of up to MaxBatch of the texts.
Batches == UNION {[1..n -> Texts] : n \in 0..MaxBatch}

\* error.message of the TypeError that the aggregation throws.
clusterErrorMessage == "cluster.patterns.counts.forEach is not a function"

\* An entry of results; data is a reference to an analysis object, or 0 for
\* null.
batchEntry(index, success, data, error) ==
  [index |-> index, success |-> success, data |-> data, error |-> error]

\* this.analyze(texts[i], options) inside the try block after a cache miss,
\* on the engine state [cache, stats, objects] carried through the loop
\* together with results.
analyzeInBatchMiss(engine, i, text, options, cacheKey, statistics, computed) ==
  IF computed.threw
  THEN [engine EXCEPT
          !.stats = statistics,
          !.results = Append(@, batchEntry(i, FALSE, 0, clusterErrorMessage))]
  ELSE [cache |-> IF cacheKey # "null"
                  THEN setToCache(engine.cache, cacheKey,
                                  Len(engine.objects) + 1)
                  ELSE engine.cache,
        stats |-> [statistics EXCEPT
                     !.analyses = @ + 1,
                     !.totalMarkers = @ + computed.markerCount,
                     !.totalWords = @ + computed.wordCount],
        objects |-> Append(engine.objects,
                           [text |-> text, options |-> options,
                            cacheKey |-> cacheKey]),
        results |-> Append(engine.results,
                           batchEntry(i, TRUE, Len(engine.objects) + 1,
                                      "null"))]

analyzeInBatchChecked(engine, i, text, options, cacheKey, lookup) ==
  IF lookup.cached # 0
  THEN [engine EXCEPT
          !.stats = lookup.stats,
          !.results = Append(@, batchEntry(i, TRUE, lookup.cached, "null"))]
  ELSE analyzeInBatchMiss(engine, i, text, options, cacheKey, lookup.stats,
                          computeAnalysis(text))

\* One iteration of the loop of analyzeBatch: try { analyze; push } catch
\* { push }.
analyzeInBatch(engine, i, text, options, cacheKey) ==
  analyzeInBatchChecked(engine, i, text, options, cacheKey,
                        IF cacheKey # "null"
                        THEN getFromCache(engine.cache, engine.stats, cacheKey)
                        ELSE [cached |-> 0, stats |-> engine.stats])

\* The loop without its catch block: the first exception ends it.
RECURSIVE analyzeBatchLoopUncaught(_, _, _, _)
analyzeBatchLoopUncaught(engine, texts, options, i) ==
  IF i >= Len(texts) \/ computeAnalysis(texts[i + 1]).threw THEN engine
  ELSE analyzeBatchLoopUncaught(
         analyzeInBatch(engine, i, texts[i + 1], options,
                        IF cacheEnabled(options)
                        THEN getCacheKey(texts[i + 1], options)
                        ELSE "null"),
         texts, options, i + 1)

\* for (let i = 0; i < texts.length; i++) { ... }
RECURSIVE analyzeBatchLoop(_, _, _, _)
analyzeBatchLoop(engine, texts, options, i) ==
  IF i >= Len(texts) THEN engine
  ELSE analyzeBatchLoop(
         analyzeInBatch(engine, i, texts[i + 1], options,
                        IF cacheEnabled(options)
                        THEN getCacheKey(texts[i + 1], options)
                        ELSE "null"),
         texts, options, i + 1)

\* The summary of a batch.
batchSummary(results) ==
  [total |-> Len(results),
   successful |-> Len(SelectSeq(results, LAMBDA r : r.success)),
   failed |-> Len(SelectSeq(results, LAMBDA r : ~r.success))]

\* The state of the engine after the loop and the value returned.
analyzeBatchDone(texts, options, engine) ==
  /\ cache' = engine.cache
  /\ stats' = engine.stats
  /\ objects' = engine.objects
  /\ returned' = [op |-> "analyzeBatch", texts |-> texts,
                  options |-> options, results |-> engine.results,
                  summary |-> batchSummary(engine.results)]

\* analyzeBatch(texts, options) on a new engine, without delayBetween.
AnalyzeBatch ==
  /\ returned.op = "constructor"
  /\ \E texts \in Batches, options \in OptionSets :
       analyzeBatchDone(texts, options,
         analyzeBatchLoop([cache |-> cache, stats |-> stats,
                           objects |-> objects, results |-> <<>>],
                          texts, options, 0))
  /\ UNCHANGED <<minConfidenceThreshold, calls, fillers>>

NextBatch == AnalyzeBatch

SpecBatch == Init /\ [][NextBatch]_vars

-----------------------------------------------------------------------------
(* validateText, and analyze on texts that it rejects                      *)

\* validateText(text) for a string of ASCII characters: the first two
\* tests reject the empty string and the strings of fewer than 10
\* characters with different messages, the third those of more than 10000.
validateText(text) ==
  IF Len(text) = 0
  THEN [valid |-> FALSE, error |-> "Text must be a non-empty string"]
  ELSE IF Len(text) < 10
  THEN [valid |-> FALSE, error |-> "Text must be at least 10 characters"]
  ELSE IF Len(text) > 10000
  THEN [valid |-> FALSE, error |-> "Text must not exceed 10,000 characters"]
  ELSE [valid |-> TRUE, error |-> "null"]

\* "", "never", "a failure", "so what"
ShortTexts ==
  {<<>>, <<"n","e","v","e","r">>, <<"a"," ","f","a","i","l","u","r","e">>,
   <<"s","o"," ","w","h","a","t">>}

\* analyze on a string that validateText rejects: analyze does not call
\* validateText.
AnalyzeShort ==
  /\ calls < MaxCalls
  /\ \E text \in ShortTexts, options \in OptionSets : analyze(text, options)
  /\ calls' = calls + 1
  /\ UNCHANGED <<minConfidenceThreshold, fillers>>

\* analyze(null, options): with the cache enabled simpleHash reads
\* str.length of null, with the cache disabled the first log line reads
\* text.length; either way a TypeError leaves analyze before it has changed
\* anything.
AnalyzeNull ==
  /\ calls < MaxCalls
  /\ \E options \in OptionSets :
       returned' = outcomeOf("analyzeNull", <<>>, options, "threw", 0, FALSE)
  /\ calls' = calls + 1
  /\ UNCHANGED <<minConfidenceThreshold, cache, stats, objects, fillers>>

NextValidation == AnalyzeShort \/ AnalyzeNull

SpecValidation == Init /\ [][NextValidation]_vars

-----------------------------------------------------------------------------
(* analyze on texts with the marker of emotional_reasoning                 *)

\* "I feel_like it is true."
textFeelLike ==
  <<"I"," ","f","e","e","l","_","l","i","k","e"," ","i","t"," ","i","s"," ",
    "t","r","u","e",".">>

\* "I feel_like a failure."
textFeelLikeFailure ==
  <<"I"," ","f","e","e","l","_","l","i","k","e"," ","a"," ","f","a","i","l",
    "u","r","e",".">>

InferenceTexts == {textFeelLike, textFeelLikeFailure, textNotNever, textWeather}

AnalyzeInference ==
  /\ calls < MaxCalls
  /\ \E text \in InferenceTexts, options \in OptionSets :
       analyze(text, options)
  /\ calls' = calls + 1
  /\ UNCHANGED <<minConfidenceThreshold, fillers>>

NextInference == AnalyzeInference \/ ClearCache

SpecInference == Init /\ [][NextInference]_vars

-----------------------------------------------------------------------------
(* analyze and analyzeConflicts on texts with negated markers              *)

\* "but disaster came but very very very disaster"
textButDisaster ==
  <<"b","u","t"," ","d","i","s","a","s","t","e","r"," ","c","a","m","e"," ",
    "b","u","t"," ","v","e","r","y"," ","v","e","r","y"," ","v","e","r","y",
    " ","d","i","s","a","s","t","e","r">>

\* Six markers, six tokens apart, two in each third of the text: must with
\* falling and failure with rising weight.
\* "very very very must x x x x maybe failure x x x x very must x x x x x
\*  failure x x x x maybe must x x very very very failure x x"
textTrends ==
  <<"v","e","r","y"," ","v","e","r","y"," ","v","e","r","y"," ","m","u","s",
    "t"," ","x"," ","x"," ","x"," ","x"," ","m","a","y","b","e"," ","f","a",
    "i","l","u","r","e"," ","x"," ","x"," ","x"," ","x"," ","v","e","r","y",
    " ","m","u","s","t"," ","x"," ","x"," ","x"," ","x"," ","x"," ","f","a",
    "i","l","u","r","e"," ","x"," ","x"," ","x"," ","x"," ","m","a","y","b",
    "e"," ","m","u","s","t"," ","x"," ","x"," ","v","e","r","y"," ","v","e",
    "r","y"," ","v","e","r","y"," ","f","a","i","l","u","r","e"," ","x"," ",
    "x">>

ConflictTexts ==
  {textButDisaster, textButFailure, textNotNever, textWeather, textTrends}

AnalyzeConflictTexts ==
  /\ calls < MaxCalls
  /\ \E text \in ConflictTexts, options \in OptionSets :
       analyze(text, options)
  /\ calls' = calls + 1
  /\ UNCHANGED <<minConfidenceThreshold, fillers>>

NextConflicts == AnalyzeConflictTexts \/ AnalyzeConflicts

SpecConflicts == Init /\ [][NextConflicts]_vars

-----------------------------------------------------------------------------
(* Conflict detection on driver-score maps                                 *)

\* The most keys of a driver-score map.
MaxDriverKeys == 2

\* The normalized scores 2, 4 and 6, in 1/(50 Unit).
NormalizedScores == {2 * 50 * Unit, 4 * 50 * Unit, 6 * 50 * Unit}

\* The driver-score maps, in the insertion order of their keys: up to
\* MaxDriverKeys distinct drivers of the driver table.  The conflict scan
\* reads nothing of an entry but its normalizedScore.
DriverScoreMaps ==
  UNION {{m \in [1..n -> [driver : {drivers[k].key : k \in 1..Len(drivers)},
                           normalizedScore : NormalizedScores]] :
            \A i, j \in 1..n : i # j => m[i].driver # m[j].driver} :
         n \in 0..MaxDriverKeys}

\* detectEnhancedConflicts(driverScores, {}, []) on a new engine.
DetectDriverConflicts ==
  /\ returned.op = "constructor"
  /\ \E driverScores \in DriverScoreMaps :
       returned' = [op |-> "detectEnhancedConflicts",
                    driverScores |-> driverScores,
                    result |-> detectEnhancedConflicts(driverScores, <<>>)]
  /\ UNCHANGED <<minConfidenceThreshold, cache, stats, objects, calls,
                 fillers>>

NextDriverConflicts == DetectDriverConflicts

SpecDriverConflicts == InitCache /\ [][NextDriverConflicts]_vars

-----------------------------------------------------------------------------
(* Conflict detection on hit lists                                         *)

\* The longest hit list.
MaxHits == 11

\* The hit lists: up to MaxHits hits on consecutive tokens, each of the
\* word always, which the lexicon has and which contradicts sometimes, or
\* of the word sometimes, which the lexicon does not have.  Every hit has
\* the adjusted weight 2 and is neither negated nor in modifier conflict.
HitLists ==
  UNION {{[k \in 1..n |->
             [word |-> w[k],
              category |-> IF w[k] = "always" THEN "absolutist"
                           ELSE "frequency",
              position |-> k - 1, adjustedWeight |-> 2 * Unit,
              isNegated |-> FALSE, hasModifierConflict |-> FALSE]] :
            w \in [1..n -> {"always", "sometimes"}]} :
         n \in 1..MaxHits}

\* detectEnhancedConflicts({}, {}, hits) on a new engine.
DetectHitConflicts ==
  /\ returned.op = "constructor"
  /\ \E hits \in HitLists :
       returned' = [op |-> "detectEnhancedConflicts", hits |-> hits,
                    result |-> detectEnhancedConflicts(<<>>, hits)]
  /\ UNCHANGED <<minConfidenceThreshold, cache, stats, objects, calls,
                 fillers>>

NextHitConflicts == DetectHitConflicts

SpecHitConflicts == InitCache /\ [][NextHitConflicts]_vars

-----------------------------------------------------------------------------
(* Repeated analyses of a text                                             *)

\* The number of analyze calls in one behaviour of repeated analyses.
MaxRepeatCalls == 3

RepeatTexts == {textNotNever, textWeather}

AnalyzeRepeat ==
  /\ calls < MaxRepeatCalls
  /\ \E text \in RepeatTexts, options \in OptionSets : analyze(text, options)
  /\ calls' = calls + 1
  /\ UNCHANGED <<minConfidenceThreshold, fillers>>

NextRepeat == AnalyzeRepeat \/ ClearCache \/ ResetStatistics

SpecRepeat == Init /\ [][NextRepeat]_vars

-----------------------------------------------------------------------------
(* Aggregation of hit lists                                                *)

\* The longest hit list that is aggregated.
MaxAggregated == 3

\* The distance in tokens between two hits of a list: more than
\* clusterThreshold, so that no cluster forms.
hitSpacing == clusterThreshold + 1

\* The hit lists: up to MaxAggregated hits, hitSpacing tokens apart in a
\* text of hitSpacing tokens per hit, each of one of two categories, of
\* adjusted weight 1.5 or 3, negated or not, in the temporal segment of its
\* position.
AggregatedHitLists ==
  UNION {{[k \in 1..n |->
             [word |-> IF h[k].category = "absolutist" THEN "always"
                       ELSE "failure",
              category |-> h[k].category,
              position |-> (k - 1) * hitSpacing,
              adjustedWeight |-> h[k].adjustedWeight,
              isNegated |-> h[k].isNegated,
              hasModifierConflict |-> FALSE,
              temporalSegment |->
                getTemporalSegment((k - 1) * hitSpacing, n * hitSpacing)]] :
            h \in [1..n -> [category : {"absolutist", "self_critic"},
                            adjustedWeight : {(3 * Unit) \div 2, 3 * Unit},
                            isNegated : BOOLEAN]]} :
         n \in 1..MaxAggregated}

\* aggregatePatternsWithClusters(hits) on a new engine.
AggregatePatterns ==
  /\ returned.op = "constructor"
  /\ \E hits \in AggregatedHitLists :
       returned' = [op |-> "aggregatePatternsWithClusters", hits |-> hits,
                    result |-> aggregatePatternsWithClusters(hits)]
  /\ UNCHANGED <<minConfidenceThreshold, cache, stats, objects, calls,
                 fillers>>

NextAggregation == AggregatePatterns

SpecAggregation == InitCache /\ [][NextAggregation]_vars

-----------------------------------------------------------------------------
(* Temporal shifts of temporal distributions                               *)

\* The summed weights of a category in a segment: 1, 2 and 3.5.
SegmentWeights == {Unit, 2 * Unit, (7 * Unit) \div 2}

\* The objects from category to summed weight that a segment of the
\* temporal distribution can be: a category without a hit in the segment
\* has no key.
SegmentMaps ==
  UNION {[cats -> SegmentWeights] : cats \in SUBSET {"absolutist", "self_critic"}}

\* analyzeTemporalShift(temporalDistribution) on a new engine.
AnalyzeTemporalShift ==
  /\ returned.op = "constructor"
  /\ \E early \in SegmentMaps, middle \in SegmentMaps, late \in SegmentMaps :
       returned' = [op |-> "analyzeTemporalShift",
                    temporalDistribution |->
                      [early |-> early, middle |-> middle, late |-> late],
                    result |-> analyzeTemporalShift(
                      [early |-> early, middle |-> middle, late |-> late])]
  /\ UNCHANGED <<minConfidenceThreshold, cache, stats, objects, calls,
                 fillers>>

NextTemporal == AnalyzeTemporalShift

SpecTemporal == InitCache /\ [][NextTemporal]_vars

-----------------------------------------------------------------------------
(* tokenize on short texts                                                 *)

\* The longest text given to tokenize.
MaxTextLen == 5

\* The characters of the texts: a lower-case and an upper-case letter, a
\* punctuation character and a whitespace character.
TextChars == {"a", "B", ",", " "}

\* The non-empty texts of up to MaxTextLen characters.
TokenizedTexts == UNION {[1..n -> TextChars] : n \in 1..MaxTextLen}

\* tokenize(text) on a new engine.
Tokenize ==
  /\ returned.op = "constructor"
  /\ \E text \in TokenizedTexts :
       returned' = [op |-> "tokenize", text |-> text,
                    result |-> tokenize(text)]
  /\ UNCHANGED <<minConfidenceThreshold, cache, stats, objects, calls,
                 fillers>>

NextTokenize == Tokenize

SpecTokenize == InitCache /\ [][NextTokenize]_vars

-----------------------------------------------------------------------------
(* analyze on texts of equal simpleHash                                    *)

\* "never": one absolutist marker.
textNever == <<"n","e","v","e","r">>

\* "oFver": no marker.  31 * 111 + 70 = 31 * 110 + 101, so simpleHash is
\* the same after two characters of "oFver" and of "never", and after all.
textOFver == <<"o","F","v","e","r">>

CollidingTexts == {textNever, textOFver, textWeather}

\* The number of analyze calls in one behaviour.
MaxCollisionCalls == 3

AnalyzeColliding ==
  /\ calls < MaxCollisionCalls
  /\ \E text \in CollidingTexts, options \in OptionSets :
       analyze(text, options)
  /\ calls' = calls + 1
  /\ UNCHANGED <<minConfidenceThreshold, fillers>>

NextCollision == AnalyzeColliding \/ ClearCache

SpecCollision == Init /\ [][NextCollision]_vars

-----------------------------------------------------------------------------
(* POST /api/analyze on the engine of the server                           *)

\* The texts posted: one of fewer than 10 characters, two that analyze
\* returns an analysis for and one for which analyze throws.
PostedTexts == {textNever, textNotNever, textWeather, textPerfect}

\* The number of requests in one behaviour.
MaxRequests == 3

\* analysis.metadata.processingTime = processingTime and
\* analysis.metadata.serverVersion = '3.0.0' on an analysis object: the
\* object gains the key serverVersion.  The two processing times are clock
\* readings and are left out of the objects.
withServerMetadata(object) ==
  [text |-> object.text, options |-> object.options,
   cacheKey |-> object.cacheKey, serverVersion |-> "3.0.0"]

\* The handler after the length checks: engine.analyze(text) and the two
\* assignments to the metadata of the object it returned, which on a hit
\* is the object held by the cache.
postAnalyzeChecked(text, cacheKey, lookup, computed) ==
  IF lookup.cached # 0
  THEN /\ stats' = lookup.stats
       /\ objects' = [objects EXCEPT ![lookup.cached] = withServerMetadata(@)]
       /\ returned' = outcomeOf("postAnalyze", text, noOptions, "returned",
                                lookup.cached, TRUE)
       /\ UNCHANGED cache
  ELSE IF computed.threw
  THEN /\ stats' = lookup.stats
       /\ returned' = outcomeOf("postAnalyze", text, noOptions, "500", 0,
                                FALSE)
       /\ UNCHANGED <<cache, objects>>
  ELSE /\ objects' = Append(objects,
                        withServerMetadata([text |-> text,
                                            options |-> noOptions,
                                            cacheKey |-> cacheKey]))
       /\ stats' = [lookup.stats EXCEPT
                      !.analyses = @ + 1,
                      !.totalMarkers = @ + computed.markerCount,
                      !.totalWords = @ + computed.wordCount]
       /\ cache' = setToCache(cache, cacheKey, Len(objects) + 1)
       /\ returned' = outcomeOf("postAnalyze", text, noOptions, "returned",
                                Len(objects) + 1, FALSE)

\* app.post('/api/analyze'): a text of fewer than 10 characters is answered
\* with status 400 before the engine is called.
PostAnalyze ==
  /\ calls < MaxRequests
  /\ \E text \in PostedTexts :
       IF Len(text) < 10
       THEN /\ returned' = outcomeOf("postAnalyze", text, noOptions, "400",
                                     0, FALSE)
            /\ UNCHANGED <<cache, stats, objects>>
       ELSE postAnalyzeChecked(text, getCacheKey(text, noOptions),
              getFromCache(cache, stats, getCacheKey(text, noOptions)),
              computeAnalysis(text))
  /\ calls' = calls + 1
  /\ UNCHANGED <<minConfidenceThreshold, fillers>>

\* engine.analyze(text) by another caller of the same engine, as the map
\* callback of POST /api/analyze/batch makes it.
AnalyzePosted ==
  /\ calls < MaxRequests
  /\ \E text \in PostedTexts : analyze(text, noOptions)
  /\ calls' = calls + 1
  /\ UNCHANGED <<minConfidenceThreshold, fillers>>

NextServer == PostAnalyze \/ AnalyzePosted

SpecServer == InitCache /\ [][NextServer]_vars

-----------------------------------------------------------------------------
(* analyze with caching enabled, without resetStatistics                   *)

\* The number of analyze calls in one behaviour.
MaxCountedCalls == 3

\* analyze(text) with options = {}: the cache is consulted in every call.
AnalyzeCounted ==
  /\ calls < MaxCountedCalls
  /\ \E text \in Texts : analyze(text, noOptions)
  /\ calls' = calls + 1
  /\ UNCHANGED <<minConfidenceThreshold, fillers>>

NextCounted == AnalyzeCounted \/ ClearCache

SpecCounted == Init /\ [][NextCounted]_vars

-----------------------------------------------------------------------------
(* TemporalAnalyzer.analyzeTemporalFlow on the hits of analyze             *)

\* this.segments of the TemporalAnalyzer.
analyzerSegments == 3

\* text.toLowerCase().split(/\s+/).length: the runs of non-whitespace
\* characters, and an empty string before a leading and after a trailing
\* run of whitespace; [""] for the empty text.
splitLength(text) ==
  IF text = <<>> THEN 1
  ELSE Len(splitWords(text))
       + (IF text[1] \in Whitespace THEN 1 ELSE 0)
       + (IF text[Len(text)] \in Whitespace THEN 1 ELSE 0)

\* position < totalLength / this.segments, cleared of the division.
getSegmentFromPosition(position, totalLength) ==
  IF position * analyzerSegments < totalLength THEN "early"
  ELSE IF position * analyzerSegments < 2 * totalLength THEN "middle"
  ELSE "late"

\* The segments of analyzeTemporalFlow(text, hits) with their markers: the
\* hits in order, each pushed to the segment of its position among
\* tokens.length positions.  The metrics derived from the markers are left
\* out.
analyzeTemporalFlow(text, hits) ==
  [segments |->
     [segment \in {"early", "middle", "late"} |->
        [markers |->
           SelectSeq(hits,
             LAMBDA hit :
               getSegmentFromPosition(hit.position, splitLength(text))
                 = segment)]]]

\* The pieces that the texts are made of: a marker, a word that is no
\* marker, a punctuation character and a space.
FlowPieces == {<<"n","e","v","e","r">>, <<"x">>, <<",">>, <<" ">>}

\* The largest number of pieces of a text.
MaxPieces == 5

\* The texts: up to MaxPieces pieces in a row.
FlowTexts ==
  UNION {{flatten(pieces, 1, n) : pieces \in [1..n -> FlowPieces]} :
           n \in 1..MaxPieces}

\* engine.analyze(text) on a new engine.
AnalyzeFlowText ==
  /\ returned.op = "constructor"
  /\ \E text \in FlowTexts : analyze(text, noOptions)
  /\ UNCHANGED <<minConfidenceThreshold, calls, fillers>>

\* temporalAnalyzer.analyzeTemporalFlow(text, analysis.hits) with the text
\* and the result of the analyze call before, as in test.js.
AnalyzeTemporalFlow ==
  /\ returned.op = "analyze"
  /\ returned.outcome = "returned"
  /\ returned' = [op |-> "analyzeTemporalFlow", text |-> returned.text,
                  analysis |-> returned.analysis,
                  result |->
                    analyzeTemporalFlow(returned.text,
                      computeAnalysis(objects[returned.analysis].text).hits)]
  /\ UNCHANGED <<minConfidenceThreshold, cache, stats, objects, calls,
                 fillers>>

NextFlow == AnalyzeFlowText \/ AnalyzeTemporalFlow

SpecFlow == InitCache /\ [][NextFlow]_vars

-----------------------------------------------------------------------------
(* tokenize and detectNegationAdvanced on a negator before a marker        *)

\* The words of negation_patterns.hard_negation as they occur in a text.
HardNegators ==
  {<<"n","o","t">>, <<"n","e","v","e","r">>, <<"n","o">>,
   <<"d","o","n","'","t">>, <<"w","o","n","'","t">>, <<"c","a","n","'","t">>,
   <<"i","s","n","'","t">>, <<"w","a","s","n","'","t">>}

\* Marker words of the lexicon.
NegatedMarkers ==
  {<<"a","l","w","a","y","s">>, <<"f","a","i","l","u","r","e">>,
   <<"d","i","s","a","s","t","e","r">>, <<"m","u","s","t">>}

\* What precedes the negator: nothing, or words of no word list.
NegatorPrefixes ==
  {<<>>, <<"I"," ">>, <<"x"," ","x"," ">>, <<"w","e"," ","x"," ","x"," ">>}

\* The step of parseTextWithEnhancements for the marker that ends the
\* text prefix + negator + " " + marker: tokens = tokenize(text), and for
\* the last token, detectNegationAdvanced(context, i, tokens).
DetectNegationInText ==
  /\ returned.op = "constructor"
  /\ \E prefix \in NegatorPrefixes, negator \in HardNegators,
        marker \in NegatedMarkers :
       returned' = [op |-> "detectNegationInText",
                    text |-> prefix \o negator \o <<" ">> \o marker,
                    negator |-> negator,
                    marker |-> marker,
                    tokens |-> tokenize(prefix \o negator \o <<" ">> \o marker),
                    result |->
                      detectNegationAdvanced(
                        Len(tokenize(prefix \o negator \o <<" ">> \o marker)) - 1,
                        tokenize(prefix \o negator \o <<" ">> \o marker))]
  /\ UNCHANGED <<minConfidenceThreshold, cache, stats, objects, calls,
                 fillers>>

NextHardNegation == DetectNegationInText

SpecHardNegation == InitCache /\ [][NextHardNegation]_vars

-----------------------------------------------------------------------------
(* Negation detection on token sequences                                   *)

\* The words of the token sequences: two hard negators (never is also a
\* marker), a soft and a conditional negator, and a neutral word.
NegationWords ==
  {<<"n","o","t">>, <<"n","e","v","e","r">>, <<"h","a","r","d","l","y">>,
   <<"b","u","t">>, <<"x">>}

\* The longest token sequence.
MaxTokens == 5

\* The token sequences of up to MaxTokens tokens; detectNegationAdvanced
\* reads nothing of a token but its word.
TokenSequences ==
  UNION {[1..n -> {[word |-> w] : w \in NegationWords}] : n \in 1..MaxTokens}

\* The call of detectNegationAdvanced(context, tokenIndex, tokens) made on
\* a new engine.
DetectNegation ==
  /\ returned.op = "constructor"
  /\ \E tokens \in TokenSequences :
       \E tokenIndex \in 0..(Len(tokens) - 1) :
          returned' = [op |-> "detectNegationAdvanced",
                       tokens |-> tokens,
                       tokenIndex |-> tokenIndex,
                       result |-> detectNegationAdvanced(tokenIndex, tokens)]
  /\ UNCHANGED <<minConfidenceThreshold, cache, stats, objects, calls,
                 fillers>>

NextNegation == DetectNegation

SpecNegation == InitCache /\ [][NextNegation]_vars

-----------------------------------------------------------------------------
(* Modifier analysis on token sequences                                    *)

\* analyzeModifiers of the earlier engine: the preceding words of the
\* context are scanned, a word is an amplifier or else a diminisher, and
\* the minimization words are not looked at.  The multiplier is in
\* thousandths.
RECURSIVE scanPreceding(_, _, _)
scanPreceding(preceding, idx, multiplier) ==
  IF idx >= Len(preceding) THEN multiplier
  ELSE LET word == preceding[idx + 1]
           w == distanceWeight(Len(preceding) - idx)
           step ==
             IF word \in amplifiers_extreme THEN 4
             ELSE IF word \in amplifiers_moderate THEN 2
             ELSE IF word \in amplifiers_emotional THEN 3
             ELSE IF word \in diminishers_uncertainty THEN 0 - 3
             ELSE IF word \in diminishers_qualification THEN 0 - 2
             ELSE 0
       IN  scanPreceding(preceding, idx + 1, multiplier + 10 * step * w)

\* context.preceding of the earlier engine: tokens.slice(start, index) with
\* start = max(0, index - contextWindow).
precedingWords(tokens, index) ==
  [k \in 1..(index - Max(0, index - contextWindow)) |->
     Str(tokens[Max(0, index - contextWindow) + k].word)]

analyzeModifiers(preceding) ==
  [multiplier |-> Max(100, Min(3000, scanPreceding(preceding, 0, 1000)))]

\* The words of the token sequences: an extreme and a moderate amplifier,
\* an uncertainty and a minimization diminisher, and a neutral word.
ModifierWords ==
  {<<"v","e","r","y">>, <<"r","e","a","l","l","y">>, <<"m","a","y","b","e">>,
   <<"j","u","s","t">>, <<"x">>}

ModifierTokenSequences ==
  UNION {[1..n -> {[word |-> w] : w \in ModifierWords}] : n \in 1..MaxTokens}

\* The call of analyzeModifiersAdvanced(context, tokenIndex, tokens) made on
\* a new engine.
AnalyzeModifiersAdvanced ==
  /\ returned.op = "constructor"
  /\ \E tokens \in ModifierTokenSequences :
       \E tokenIndex \in 0..(Len(tokens) - 1) :
          returned' = [op |-> "analyzeModifiersAdvanced",
                       tokens |-> tokens,
                       tokenIndex |-> tokenIndex,
                       result |-> analyzeModifiersAdvanced(tokenIndex, tokens)]
  /\ UNCHANGED <<minConfidenceThreshold, cache, stats, objects, calls,
                 fillers>>

\* The call of analyzeModifiers(extractContext(tokens, index)) of the
\* earlier engine.
AnalyzeModifiers ==
  /\ returned.op = "constructor"
  /\ \E tokens \in ModifierTokenSequences :
       \E tokenIndex \in 0..(Len(tokens) - 1) :
          returned' = [op |-> "analyzeModifiers",
                       tokens |-> tokens,
                       tokenIndex |-> tokenIndex,
                       result |->
                         analyzeModifiers(precedingWords(tokens, tokenIndex))]
  /\ UNCHANGED <<minConfidenceThreshold, cache, stats, objects, calls,
                 fillers>>

NextModifiers == AnalyzeModifiersAdvanced \/ AnalyzeModifiers

SpecModifiers == InitCache /\ [][NextModifiers]_vars

-----------------------------------------------------------------------------
(* ConfidenceScorer                                                        *)

\* Probabilities and factors are in millionths; marker weights, weighted
\* scores and severities given to the scorer are in hundredths.

\* a * b for two values in millionths, without leaving 32 bits.
mulMicro(a, b) == ((a \div 1000) * b) \div 1000 + ((a % 1000) * b) \div Micro

\* this.baseProbabilities.patterns[category] || 0.1
basePatternProbability(category) ==
  IF category = "absolutist" THEN 150000
  ELSE IF category = "imperative" THEN 250000
  ELSE IF category = "catastrophizing" THEN 100000
  ELSE IF category = "self_critic" THEN 200000
  ELSE IF category = "personalization" THEN 80000
  ELSE IF category = "mind_reading" THEN 120000
  ELSE IF category = "emotional_reasoning" THEN 180000
  ELSE 100000

\* this.baseProbabilities.drivers[driver] || 0.2
baseDriverProbability(driver) ==
  IF driver = "control" THEN 300000
  ELSE IF driver = "validation" THEN 350000
  ELSE IF driver = "safety" THEN 250000
  ELSE IF driver = "responsibility" THEN 150000
  ELSE 200000

\* 1 / (1 + exp(-x)) at x = -6, -5.75, ..., 6.
sigmoidTable ==
  <<2473, 3173, 4070, 5220, 6693, 8577, 10987,
    14064, 17986, 22977, 29312, 37327, 47426, 60087,
    75858, 95349, 119203, 148047, 182426, 222700, 268941,
    320821, 377541, 437823, 500000, 562177, 622459, 679179,
    731059, 777300, 817574, 851953, 880797, 904651, 924142,
    939913, 952574, 962673, 970688, 977023, 982014, 985936,
    989013, 991423, 993307, 994780, 995930, 996827, 997527>>

\* sigmoid(x), x in millionths: linear interpolation in sigmoidTable (within
\* 0.001 of the function), the end values outside [-6, 6].
sigmoid(x) ==
  IF x <= -6 * Micro THEN sigmoidTable[1]
  ELSE IF x >= 6 * Micro THEN sigmoidTable[Len(sigmoidTable)]
  ELSE LET k == (x + 6 * Micro) \div (Micro \div 4)
           rest == (x + 6 * Micro) % (Micro \div 4)
       IN  sigmoidTable[k + 1]
             + ((sigmoidTable[k + 2] - sigmoidTable[k + 1]) * (rest \div 250))
                 \div 1000

calculateCountFactor(count) ==
  IF count = 0 THEN 100000
  ELSE IF count = 1 THEN 300000
  ELSE IF count = 2 THEN 600000
  ELSE IF count = 3 THEN 800000
  ELSE IF count = 4 THEN 900000
  ELSE 950000

\* 0.3 + min(1, weightedScore / 15) * 0.7
calculateWeightFactor(weightedScore) ==
  300000 + (Min(Micro, (weightedScore * 10000) \div 15) * 7) \div 10

\* The variance of the positions over (totalMarkers / 2)^2 is compared with
\* 0.1 and 0.9 exactly: with n positions of sum s and square sum q it is
\* 4 * (n*q - s*s) / (n*n * totalMarkers^2).  For totalMarkers = 0 the
\* double is Infinity or NaN, and the comparisons come out the same.
calculateDistributionFactor(positions, totalMarkers) ==
  IF Len(positions) < 2 THEN 500000
  ELSE LET n == Len(positions)
           s == Sum(positions)
           q == Sum([i \in 1..n |-> positions[i] * positions[i]])
           spread == 4 * (n * q - s * s)
           full == n * n * totalMarkers * totalMarkers
       IN  IF 10 * spread < full THEN 400000
           ELSE IF 10 * spread > 9 * full THEN 700000
           ELSE 600000

\* weightVariance / avgWeight is (n*q - s*s) / (n * s) for n weights of sum
\* s and square sum q, here in hundredths.
calculateConsistencyFactor(markers) ==
  IF Len(markers) < 2 THEN 500000
  ELSE LET n == Len(markers)
           s == Sum([i \in 1..n |-> markers[i].weight])
           q == Sum([i \in 1..n |-> markers[i].weight * markers[i].weight])
           ratio == (((n * q - s * s) * 1000) \div (n * s)) * 10
           negatedCount == Len(SelectSeq(markers, LAMBDA m : m.negated))
           away == IF 2 * negatedCount >= n THEN 2 * negatedCount - n
                   ELSE n - 2 * negatedCount
           negationConsistency == IF 5 * away > 4 * n THEN 700000 ELSE 500000
           weightConsistency == Max(300000, Micro - ratio)
       IN  (weightConsistency * 7) \div 10 + (negationConsistency * 3) \div 10

calculateContextFactor(markers) ==
  IF Len(markers) = 0 THEN 500000
  ELSE Sum([i \in 1..Len(markers) |->
              IF /\ wordLookup(markers[i].word) # <<>>
                 /\ wordLookup(markers[i].word)[1].context_required
              THEN 600000 ELSE 800000]) \div Len(markers)

\* Math.min(0.95, Math.max(0.05, confidence))
clampConfidence(confidence) == Min(950000, Max(50000, confidence))

\* calculatePatternConfidence; patternData is never null here.
calculatePatternConfidence(patternData, totalMarkers) ==
  IF patternData.count = 0 THEN 0
  ELSE clampConfidence(sigmoid(
         mulMicro(mulMicro(mulMicro(mulMicro(mulMicro(
           basePatternProbability(patternData.category),
           calculateCountFactor(patternData.count)),
           calculateWeightFactor(patternData.weightedScore)),
           calculateDistributionFactor(patternData.positions, totalMarkers)),
           calculateConsistencyFactor(patternData.markers)),
           calculateContextFactor(patternData.markers)) * 10 - 5 * Micro))

\* calculateDriverConfidence; contributingPatterns is the list of the
\* confidences of the contributing patterns, a confidence of 0 counting as
\* 0.5.
calculateDriverConfidence(driverData, contributingPatterns) ==
  IF Len(contributingPatterns) = 0 THEN 0
  ELSE LET n == Len(contributingPatterns)
           avgPatternConfidence ==
             Sum([i \in 1..n |->
                    IF contributingPatterns[i] = 0 THEN 500000
                    ELSE contributingPatterns[i]]) \div n
           patternCountFactor == Min(Micro, (n * Micro) \div 3)
           weightFactor == Min(Micro, driverData.weightedScore * 500)
       IN  clampConfidence(sigmoid(
             mulMicro(mulMicro(mulMicro(
               baseDriverProbability(driverData.driver),
               300000 + (avgPatternConfidence * 7) \div 10),
               500000 + patternCountFactor \div 2),
               400000 + (weightFactor * 6) \div 10) * 8 - 4 * Micro))

calculateConflictClarity(conflictData) ==
  IF conflictData.type = "lexical_contradiction"
  THEN IF conflictData.distance < 10 THEN 800000 ELSE 500000
  ELSE IF conflictData.type = "driver_conflict" THEN 700000
  ELSE IF conflictData.type = "pattern_conflict" THEN 600000
  ELSE IF conflictData.type = "self_negation"
  THEN IF conflictData.weight > 200 THEN 800000 ELSE 400000
  ELSE 500000

\* conflictData.interpretation stands for the length of the string.
calculateConflictEvidence(conflictData) ==
  (IF Len(conflictData.drivers) = 2 THEN 400000 ELSE 0)
  + (IF conflictData.interpretation > 20 THEN 300000 ELSE 0)
  + (IF conflictData.severity > 300 THEN 300000 ELSE 0)

\* calculateConflictConfidence; conflictData is never null here.
calculateConflictConfidence(conflictData) ==
  Min(950000,
      mulMicro(mulMicro(mulMicro(
        500000,
        300000 + (Min(Micro, conflictData.severity * 1000) * 7) \div 10),
        400000 + (calculateConflictClarity(conflictData) * 6) \div 10),
        500000 + calculateConflictEvidence(conflictData) \div 2))

\* The records given to the scorer.
scorerMarkers ==
  [word : {"never", "should"}, weight : {50, 250}, negated : BOOLEAN,
   position : {0, 9}]

\* The longest marker list of a pattern record.
MaxMarkers == 2

\* The longest list of contributing patterns of a driver record.
MaxContributing == 2

\* The pattern record that the aggregation builds from the markers of a
\* category: negated markers contribute half their weight.
patternRecord(category, markers) ==
  [category |-> category,
   count |-> Len(markers),
   weightedScore |->
     Sum([i \in 1..Len(markers) |->
            IF markers[i].negated THEN markers[i].weight \div 2
            ELSE markers[i].weight]),
   positions |-> [i \in 1..Len(markers) |-> markers[i].position],
   markers |-> markers]

scorerPatterns ==
  {patternRecord(category, markers) :
     category \in {"absolutist", "imperative", "undefined"},
     markers \in UNION {[1..n -> scorerMarkers] : n \in 0..MaxMarkers}}

scorerDrivers ==
  [driver : {"control", "validation", "undefined"},
   weightedScore : {100, 900, 2500}]

scorerContributing ==
  UNION {[1..n -> {0, 252499, 950000, 1170000}] : n \in 0..MaxContributing}

scorerConflicts ==
  [type : {"lexical_contradiction", "driver_conflict", "pattern_conflict",
           "self_negation", "modifier_conflict"},
   distance : {3, 12},
   weight : {180, 250},
   severity : {10, 45, 57, 350, 1200},
   drivers : {<<>>, <<"control", "validation">>},
   interpretation : {13, 120}]

\* The calls of the scorer, each made on a new scorer.
ScorePattern ==
  /\ returned.op = "constructor"
  /\ \E patternData \in scorerPatterns :
       \E totalMarkers \in {patternData.count, 10} :
          returned' = [op |-> "calculatePatternConfidence",
                       patternData |-> patternData,
                       totalMarkers |-> totalMarkers,
                       result |->
                         calculatePatternConfidence(patternData, totalMarkers)]
  /\ UNCHANGED <<minConfidenceThreshold, cache, stats, objects, calls,
                 fillers>>

ScoreDriver ==
  /\ returned.op = "constructor"
  /\ \E driverData \in scorerDrivers :
       \E contributingPatterns \in scorerContributing :
          returned' = [op |-> "calculateDriverConfidence",
                       driverData |-> driverData,
                       contributingPatterns |-> contributingPatterns,
                       result |->
                         calculateDriverConfidence(driverData,
                                                   contributingPatterns)]
  /\ UNCHANGED <<minConfidenceThreshold, cache, stats, objects, calls,
                 fillers>>

ScoreConflict ==
  /\ returned.op = "constructor"
  /\ \E conflictData \in scorerConflicts :
       returned' = [op |-> "calculateConflictConfidence",
                    conflict |-> conflictData,
                    result |-> calculateConflictConfidence(conflictData)]
  /\ UNCHANGED <<minConfidenceThreshold, cache, stats, objects, calls,
                 fillers>>

NextScorer == ScorePattern \/ ScoreDriver \/ ScoreConflict

SpecScorer == InitCache /\ [][NextScorer]_vars

-----------------------------------------------------------------------------
(* Properties                                                              *)

\* The fields of analysis object a that the pipeline computed.
analysisOf(a) == computeAnalysis(objects[a].text)

\* C1: every hit of every analysis has an adjusted weight of at least the
\* minConfidence the engine was constructed with (0.3 when none was given).
HitsReachMinConfidence ==
  \A a \in 1..Len(objects) :
     \A k \in 1..Len(analysisOf(a).hits) :
        analysisOf(a).hits[k].adjustedWeight >= minConfidenceThreshold

\* C2: in the analysis of "I am not never going to fail." the negation
\* state of the marker never is cancelled by the double-negative rule:
\* isNegated false, strength 0, type double_negative.
NotNeverIsCancelled ==
  \A a \in 1..Len(objects) :
     objects[a].text = textNotNever =>
       \A k \in 1..Len(analysisOf(a).hits) :
          analysisOf(a).hits[k].word = "never" =>
            /\ ~analysisOf(a).hits[k].isNegated
            /\ analysisOf(a).hits[k].negationStrength = 0
            /\ analysisOf(a).hits[k].negationType = "double_negative"

\* The hard negators among the up to three tokens before the token at
\* tokenIndex of the latest detectNegationAdvanced call.
hardNegatorsBefore ==
  {i \in 1..returned.tokenIndex :
     /\ returned.tokenIndex - i < 3
     /\ Str(returned.tokens[i].word) \in {"not", "never"}}

\* C3: when exactly two of the up to three tokens before the marker are
\* hard negators the marker is not negated; when exactly one or exactly
\* three of them are, it is negated.
TwoHardNegatorsCancel ==
  returned.op = "detectNegationAdvanced" =>
    /\ Cardinality(hardNegatorsBefore) = 2 => ~returned.result.isNegated
    /\ Cardinality(hardNegatorsBefore) \in {1, 3} =>
         returned.result.isNegated

\* Two hard negators right before the marker, a third one further back in
\* the context window: the negation is cancelled.
TwoHardNegatorsCancelWitness ==
  /\ returned.op = "detectNegationAdvanced"
  /\ returned.tokenIndex = 4
  /\ Str(returned.tokens[1].word) = "not"
  /\ Cardinality(hardNegatorsBefore) = 2
  /\ returned.result.type = "double_negative"
  /\ ~returned.result.isNegated

\* C4: the analysis of "I should always be perfect, but sometimes I feel
\* like a failure." followed by conflict detection yields an absolutist hit
\* for always, an imperative hit for should, a self_critic hit for failure
\* and a conflict of type pattern_conflict or lexical_contradiction.
PerfectScenarioYieldsHitsAndConflict ==
  (returned.op = "analyze" /\ returned.text = textPerfect) =>
    /\ returned.outcome = "returned"
    /\ \A expected \in {<<"always", "absolutist">>, <<"should", "imperative">>,
                         <<"failure", "self_critic">>} :
          \E k \in 1..Len(analysisOf(returned.analysis).hits) :
             /\ analysisOf(returned.analysis).hits[k].word = expected[1]
             /\ analysisOf(returned.analysis).hits[k].category = expected[2]
    /\ \E k \in 1..Len(analyzeConflicts(analysisOf(returned.analysis)).all) :
          analyzeConflicts(analysisOf(returned.analysis)).all[k].type
            \in {"pattern_conflict", "lexical_contradiction"}

\* C5: analyze returns an analysis for every text, wherever its hits lie
\* relative to one another; no stage of the pipeline throws.
AnalyzeNeverThrows ==
  returned.op = "analyze" =>
    /\ returned.outcome = "returned"
    /\ returned.analysis \in 1..Len(objects)

\* C6: with caching enabled, once analyze(T, O) has returned, a later
\* analyze(T, O) with fewer than the cache capacity of other insertions in
\* between returns a result with the same hits, patterns, drivers and
\* conflicts, creates no new analysis, and adds exactly 1 to
\* stats.cacheHits.  T is textWeather and O the default options; the runs
\* never clear the cache, and every analysis created after object a is one
\* insertion.
RepeatedAnalyzeReturnsCached ==
  [][\A a \in 1..Len(objects) :
       (/\ calls' = calls + 1
        /\ objects[a].text = textWeather
        /\ objects[a].options = noOptions
        /\ Len(objects) - a < cacheLimit)
       => /\ returned'.outcome = "returned"
          /\ returned'.cached
          /\ objects' = objects
          /\ returned'.analysis \in 1..Len(objects)
          /\ objects[returned'.analysis].text = objects[a].text
          /\ objects[returned'.analysis].options = objects[a].options
          /\ analysisOf(returned'.analysis).hits = analysisOf(a).hits
          /\ analysisOf(returned'.analysis).patterns = analysisOf(a).patterns
          /\ analysisOf(returned'.analysis).drivers = analysisOf(a).drivers
          /\ analysisOf(returned'.analysis).conflicts
               = analysisOf(a).conflicts
          /\ stats'.cacheHits = stats.cacheHits + 1]_vars

\* The second analysis of textWeather hits the cache after 99 other
\* insertions.
RepeatedAnalyzeReturnsCachedWitness ==
  /\ returned.op = "analyze"
  /\ returned.cached
  /\ returned.text = textWeather
  /\ returned.analysis = 1
  /\ Len(objects) = cacheLimit
  /\ stats.cacheHits = 1

\* C7: the cache never holds more than 100 entries, and an insertion that
\* evicts an entry evicts the one inserted earliest.
CacheHoldsAtMostHundredFifo ==
  [][/\ Len(cache') <= cacheLimit
     /\ (cache # <<>> /\ cache' # <<>> /\ Head(cache') # Head(cache))
          => Tail(cache) = SubSeq(cache', 1, Len(cache') - 1)]_vars

\* The sum of the severities of a list of conflicts.
totalConflictSeverity(conflicts) ==
  Sum([i \in 1..Len(conflicts) |-> conflicts[i].severity])

PatternConfidenceWithinUnitInterval ==
  \A a \in 1..Len(objects) :
     \A k \in 1..Len(analysisOf(a).patterns) :
        /\ analysisOf(a).patterns[k].confidence >= 0
        /\ analysisOf(a).patterns[k].confidence <= Micro


\* C11: whatever amplifiers and diminishers precede the marker, the
\* multiplier returned by the modifier analysis (of either engine) lies
\* between 0.1 and 3.0.
ModifierMultiplierWithinBounds ==
  returned.op \in {"analyzeModifiersAdvanced", "analyzeModifiers"} =>
    /\ returned.result.multiplier >= 100
    /\ returned.result.multiplier <= 3000

\* Four uncertainty diminishers precede the marker and the multiplier has
\* been computed from the three nearest of them.
ModifierMultiplierWithinBoundsWitness ==
  /\ returned.op = "analyzeModifiersAdvanced"
  /\ returned.tokenIndex = 4
  /\ \A k \in 1..4 : returned.tokens[k].word = <<"m","a","y","b","e">>
  /\ returned.result.multiplier = 240

\* C12: analyzeBatch returns one entry per input text, entry k carrying
\* index k, in input order; an item whose analysis throws is a failed entry
\* with an error message and the items after it are still analysed; the
\* successful and failed counts of the summary add up to its total, the
\* number of input texts.
BatchReturnsOneEntryPerText ==
  returned.op = "analyzeBatch" =>
    /\ Len(returned.results) = Len(returned.texts)
    /\ \A k \in 1..Len(returned.results) :
         /\ returned.results[k].index = k - 1
         /\ returned.results[k].success =
              ~computeAnalysis(returned.texts[k]).threw
         /\ returned.results[k].success =>
              /\ returned.results[k].data \in 1..Len(objects)
              /\ objects[returned.results[k].data].text = returned.texts[k]
              /\ returned.results[k].error = "null"
         /\ ~returned.results[k].success =>
              /\ returned.results[k].data = 0
              /\ returned.results[k].error # "null"
    /\ returned.summary.total = Len(returned.texts)
    /\ returned.summary.successful + returned.summary.failed =
         returned.summary.total

\* A batch of three texts whose second item threw and whose third item was
\* analysed.
BatchReturnsOneEntryPerTextWitness ==
  /\ returned.op = "analyzeBatch"
  /\ returned.texts = <<textWeather, textPerfect, textNotNever>>
  /\ ~returned.results[2].success
  /\ returned.results[3].success
  /\ returned.summary.failed = 1

\* C13: analyze called with an empty string, a value that is not a string,
\* or a string of fewer than 10 characters returns a validation error; it
\* does not throw and it creates no analysis of such an input.
AnalyzeRejectsInvalidText ==
  /\ returned.op = "analyzeNull" => returned.outcome = "invalid"
  /\ (returned.op = "analyze" /\ ~validateText(returned.text).valid) =>
        /\ returned.outcome = "invalid"
        /\ returned.analysis = 0

\* C14: every driver of the driver scores of every analysis is a driver
\* defined in the driver table: a pattern whose declared driver the table
\* lacks contributes to no driver score.
DriverScoresNameDefinedDrivers ==
  \A a \in 1..Len(objects) :
     \A k \in 1..Len(analysisOf(a).drivers) :
        driverInfo(analysisOf(a).drivers[k].driver) # <<>>

\* A list of conflicts in order of non-increasing severity.
nonIncreasingSeverity(conflicts) ==
  \A k \in 1..(Len(conflicts) - 1) :
     conflicts[k].severity >= conflicts[k + 1].severity

\* C15: the conflicts list of every analysis is ordered by non-increasing
\* severity, and so is the list all that analyzeConflicts builds from its
\* narrative scan, the conflicts of the analysis, its pattern scan and its
\* temporal scan.
ConflictListsOrderedBySeverity ==
  /\ \A a \in 1..Len(objects) : nonIncreasingSeverity(analysisOf(a).conflicts)
  /\ returned.op = "analyzeConflicts" =>
       nonIncreasingSeverity(
         analyzeConflicts(analysisOf(returned.analysis)).all)

TemporalConflictForOpposedTrends ==
  returned.op = "analyzeConflicts" =>
    \A p, q \in 1..Len(analysisOf(returned.analysis).patterns) :
       (/\ patternInfo(analysisOf(returned.analysis).patterns[p].category)[1].driver
             = patternInfo(analysisOf(returned.analysis).patterns[q].category)[1].driver
        /\ analysisOf(returned.analysis).patterns[p].temporalDistribution.early
             > analysisOf(returned.analysis).patterns[p].temporalDistribution.middle
        /\ analysisOf(returned.analysis).patterns[p].temporalDistribution.middle
             > analysisOf(returned.analysis).patterns[p].temporalDistribution.late
        /\ analysisOf(returned.analysis).patterns[q].temporalDistribution.early
             < analysisOf(returned.analysis).patterns[q].temporalDistribution.middle
        /\ analysisOf(returned.analysis).patterns[q].temporalDistribution.middle
             < analysisOf(returned.analysis).patterns[q].temporalDistribution.late)
       => \E k \in 1..Len(analyzeConflicts(analysisOf(returned.analysis)).temporal) :
             /\ analyzeConflicts(analysisOf(returned.analysis)).temporal[k].type
                  = "temporal_conflict"
             /\ analyzeConflicts(analysisOf(returned.analysis)).temporal[k].severity
                  = (6 * Micro) \div 10
             /\ {analyzeConflicts(analysisOf(returned.analysis)).temporal[k].words[1],
                 analyzeConflicts(analysisOf(returned.analysis)).temporal[k].words[2]}
                  = {analysisOf(returned.analysis).patterns[p].category,
                     analysisOf(returned.analysis).patterns[q].category}

sumOverCategory(hits, category, values) ==
  Sum([i \in 1..Len(hits) |->
         IF hits[i].category = category THEN values[i] ELSE 0])

clustersOf(text) == detectPatternClusters(parseTextWithEnhancements(text))

aggregationOf(text) ==
  aggregatePatternsWithClusters(parseTextWithEnhancements(text))

\* C21: the clusters of the hits of an analysed text are runs of at least
\* two hits whose neighbours are at most 5 positions apart, two hits that
\* close are in one cluster, and the aggregation completes with, in the
\* cluster list of every category, one entry for each cluster that holds a
\* hit of the category.
ClustersAttachedToPatternScores ==
  returned.op = "analyze" =>
    /\ \A c \in 1..Len(clustersOf(returned.text)) :
         /\ clustersOf(returned.text)[c].size >= 2
         /\ \A m \in 1..(clustersOf(returned.text)[c].size - 1) :
              clustersOf(returned.text)[c].markers[m + 1]
                - clustersOf(returned.text)[c].markers[m] <= clusterThreshold
    /\ \A c, d \in 1..Len(clustersOf(returned.text)) :
         c < d => clustersOf(returned.text)[d].startPosition
                    - clustersOf(returned.text)[c].endPosition
                      > clusterThreshold
    /\ ~aggregationOf(returned.text).threw
    /\ \A k \in 1..Len(aggregationOf(returned.text).patternScores) :
         Len(aggregationOf(returned.text).patternScores[k].clusters) =
           Cardinality(
             {c \in 1..Len(clustersOf(returned.text)) :
                aggregationOf(returned.text).patternScores[k].category
                  \in DOMAIN clustersOf(returned.text)[c].patterns.counts})

\* The summed weight of a category in a segment of a temporal distribution.
weightIn(temporalDistribution, seg, cat) ==
  IF cat \in DOMAIN temporalDistribution[seg]
  THEN temporalDistribution[seg][cat] ELSE 0

\* C22: analyzeTemporalShift emits a shift for a category and a pair of
\* adjacent segments exactly when the summed weights of the category in the
\* two segments differ by more than 1, with percentChange 100 when the
\* earlier weight is 0; a distribution in which every category has the
\* same weight in all three segments has no shift.
ShiftIffChangeExceedsOne ==
  returned.op = "analyzeTemporalShift" =>
    /\ \A cat \in {"absolutist", "self_critic"} :
         \A pair \in {<<"early", "middle">>, <<"middle", "late">>} :
            /\ (\E s \in returned.result.shifts :
                   /\ s.category = cat
                   /\ s.from = pair[1]
                   /\ s.to = pair[2])
                <=> (\/ weightIn(returned.temporalDistribution, pair[2], cat)
                          - weightIn(returned.temporalDistribution, pair[1], cat)
                            > Unit
                     \/ weightIn(returned.temporalDistribution, pair[1], cat)
                          - weightIn(returned.temporalDistribution, pair[2], cat)
                            > Unit)
            /\ \A s \in returned.result.shifts :
                  (/\ s.category = cat
                   /\ s.from = pair[1]
                   /\ s.to = pair[2]
                   /\ weightIn(returned.temporalDistribution, pair[1], cat) = 0)
                  => s.percentChange = 100
    /\ (\A cat \in {"absolutist", "self_critic"} :
          /\ weightIn(returned.temporalDistribution, "early", cat)
               = weightIn(returned.temporalDistribution, "middle", cat)
          /\ weightIn(returned.temporalDistribution, "middle", cat)
               = weightIn(returned.temporalDistribution, "late", cat))
        => returned.result.shifts = {}

\* A category absent early, of weight 2 in the middle and of weight 1 late:
\* one shift, of percentChange 100, and none for the change of exactly 1.
ShiftIffChangeExceedsOneWitness ==
  /\ returned.op = "analyzeTemporalShift"
  /\ DOMAIN returned.temporalDistribution.early = {}
  /\ returned.temporalDistribution.middle = [c \in {"absolutist"} |-> 2 * Unit]
  /\ returned.temporalDistribution.late = [c \in {"absolutist"} |-> Unit]
  /\ returned.result.shifts =
       {[category |-> "absolutist", from |-> "early", to |-> "middle",
         change |-> 2 * Unit, percentChange |-> 100]}

\* The effectiveness, in sixtieths, of the token at 0-based index i as a
\* negator of the token at returned.tokenIndex; 0 for a word of no list.
negatorEffectiveness(i) ==
  IF negationTypeOf(Str(returned.tokens[i + 1].word)) = "none" THEN 0
  ELSE negationStrength(negationTypeOf(Str(returned.tokens[i + 1].word)))
         * (6 - (returned.tokenIndex - i))

\* The negator of the result is a most effective one among the up to five
\* preceding tokens.
chosenIsMostEffective ==
  /\ returned.result.distance \in 1..5
  /\ returned.result.distance <= returned.tokenIndex
  /\ Str(returned.tokens[returned.tokenIndex - returned.result.distance + 1].word)
       = returned.result.negator
  /\ \A i \in Max(0, returned.tokenIndex - 5)..(returned.tokenIndex - 1) :
       negatorEffectiveness(i)
         <= negatorEffectiveness(returned.tokenIndex - returned.result.distance)

\* C23: detectNegationAdvanced returns the cancelled state (type
\* double_negative, not negated, strength 0) only when the negator it chose
\* as the most effective one among the five preceding tokens is a hard
\* negator; when the chosen negator is a soft or a conditional one the
\* result is negated with that negator's strength decayed over its distance.
CancelledOnlyForHardNegator ==
  (returned.op = "detectNegationAdvanced" /\ returned.result.negator # "null") =>
    /\ chosenIsMostEffective
    /\ returned.result.type = "double_negative" =>
         /\ returned.result.negator \in hard_negation
         /\ ~returned.result.isNegated
         /\ returned.result.strength = 0
    /\ returned.result.negator \in soft_negation \cup conditional_negation =>
         /\ returned.result.isNegated
         /\ returned.result.type
              = (IF returned.result.negator \in soft_negation
                 THEN "soft" ELSE "conditional")
         /\ returned.result.strength
              = (IF returned.result.negator \in soft_negation THEN 6 ELSE 3)
                  * (6 - returned.result.distance)

\* "not not hardly x": the soft negator is the nearest one, the hard
\* negator at distance 2 is the most effective one, and the two hard
\* negators cancel.
CancelledOnlyForHardNegatorWitness ==
  /\ returned.op = "detectNegationAdvanced"
  /\ returned.tokenIndex = 3
  /\ Str(returned.tokens[1].word) = "not"
  /\ Str(returned.tokens[2].word) = "not"
  /\ Str(returned.tokens[3].word) = "hardly"
  /\ returned.result.type = "double_negative"
  /\ returned.result.negator = "not"
  /\ returned.result.distance = 2
  /\ ~returned.result.isNegated

\* C24: for every token of tokenize(text), the word of the token begins in
\* the text at charPosition, original is the text's characters there, and
\* original in lower case is the word; also for texts with punctuation and
\* with runs of whitespace.
TokensLocateTheirSurfaceForm ==
  returned.op = "tokenize" =>
    \A k \in 1..Len(returned.result) :
       /\ returned.result[k].charPosition + Len(returned.result[k].word)
            <= Len(returned.text)
       /\ returned.result[k].original
            = SubSeq(returned.text, returned.result[k].charPosition + 1,
                     returned.result[k].charPosition
                       + Len(returned.result[k].word))
       /\ Len(returned.result[k].original) = Len(returned.result[k].word)
       /\ \A i \in 1..Len(returned.result[k].word) :
            toLowerCase(returned.result[k].original[i])
              = returned.result[k].word[i]

\* C25: with caching enabled, analyze(text, options) never returns a
\* result computed for another text or for other options: a cache hit
\* returns an object that was computed for the text and the options of the
\* call, with the hits of that text.
CacheHitIsForRequestedText ==
  (returned.op = "analyze" /\ returned.outcome = "returned"
     /\ returned.cached) =>
    /\ objects[returned.analysis].text = returned.text
    /\ objects[returned.analysis].options = returned.options
    /\ analysisOf(returned.analysis).hits
         = computeAnalysis(returned.text).hits

\* C26: what a caller does with a returned result does not change the
\* cache entry: a cache hit of analyze returns an object equal to the one
\* that the first call for the text computed and stored.
CacheHitReturnsStoredResult ==
  (returned.op = "analyze" /\ returned.outcome = "returned"
     /\ returned.cached) =>
    objects[returned.analysis]
      = [text |-> returned.text, options |-> returned.options,
         cacheKey |-> getCacheKey(returned.text, returned.options)]

\* C27: after any sequence of analyze calls with caching enabled and no
\* resetStatistics, cacheHits + cacheMisses is the number of calls and
\* analyses equals cacheMisses.
StatisticsCountCalls ==
  /\ stats.cacheHits + stats.cacheMisses = calls
  /\ stats.analyses = stats.cacheMisses

\* The list `all` of analyzeConflicts on the analysis object of the latest
\* call.
allConflictsReturned == analyzeConflicts(analysisOf(returned.analysis)).all

\* C28: the list `all` of analyzeConflicts on a result of analyze has no
\* two lexical_contradiction entries for the same pair of hit positions and
\* no two self_negation entries for the same hit.
EachContradictionReportedOnce ==
  returned.op = "analyzeConflicts" =>
    \A i \in 1..Len(allConflictsReturned) :
       \A j \in (i + 1)..Len(allConflictsReturned) :
          ~(/\ allConflictsReturned[i].type
                 \in {"lexical_contradiction", "self_negation"}
            /\ allConflictsReturned[j].type = allConflictsReturned[i].type
            /\ allConflictsReturned[j].positions
                 = allConflictsReturned[i].positions)

\* C29: analyzeTemporalFlow(text, hits) places every hit of analyze(text)
\* in the segment that the engine assigned to the hit as temporalSegment,
\* also for texts with punctuation.
FlowSegmentsMatchEngineSegments ==
  returned.op = "analyzeTemporalFlow" =>
    \A segment \in {"early", "middle", "late"} :
       \A k \in 1..Len(returned.result.segments[segment].markers) :
          returned.result.segments[segment].markers[k].temporalSegment
            = segment

\* C30: every word of the hard-negation list, as the word right before a
\* marker in the text, makes tokenize followed by detectNegationAdvanced
\* resolve the marker as negated, with type hard.
HardNegatorsNegateNextMarker ==
  returned.op = "detectNegationInText" =>
    /\ Str(returned.negator) \in hard_negation
    /\ wordLookup(Str(returned.tokens[Len(returned.tokens)].word)) # <<>>
    /\ returned.result.isNegated
    /\ returned.result.type = "hard"

=============================================================================
